---- MODULE Spec2Model ----
(***************************************************************************)
(* A model of the file-IO accounting engine of file_io_hook:                *)
(*   RWSpinLock          (src/src/common/rw_spin_lock.h)                    *)
(*   ConcurrentHashMap   (src/src/common/concurrent_hash_map.h)             *)
(*   DoubleBallModule    (hook_io_handle.h, src/unnamed/part_000)           *)
(*   FileIoInfoHandler   (hook_io_handle.cpp, src/unnamed/part_001)         *)
(* Every thread runs the handlers step by step; a step is one access to     *)
(* shared memory (an atomic operation, a lock operation, or a critical      *)
(* section together with the unlock that ends it).                          *)
(***************************************************************************)
EXTENDS Integers, Sequences, FiniteSets, TLC

VARIABLES
    is_object_destruct,   \* static bool is_object_destruct
    monitor_item,         \* HookFuncMonitorItem: the eight counters
    maps,                 \* the bucket chains of fd_file_name_, ball_01_, ball_02_
    locks,                \* the RWSpinLock (head_, tail_) of every bucket
    choose_ball_,         \* DoubleBallModule::choose_ball_
    data_count_,          \* DoubleBallModule::data_count_
    mtx_,                 \* DoubleBallModule::mtx_: the owning thread, or NoThread
    file_io_info_vec,     \* the static result vector of consume_and_parse
    child,                \* the forked child's copy of the locks
    pc,                   \* each thread's position
    local,                \* each thread's arguments and local variables
    ops,                  \* calls each thread may still make
    pre,                  \* history: the state at the entry of each thread's call
    ereg,                 \* history: fd -> path of the latest accepted open since the last close
    since,                \* history: bytes accepted since the last snapshot call, by <<fd, path>>
    accepted,             \* history: bytes accepted so far, by <<tid, path>>
    returned,             \* history: bytes returned by all snapshots so far, by <<tid, path>>
                          \* (pre, ereg and since are kept for the calls of the sequential
                          \* specification, accepted and returned for the concurrent ones)
    retired,              \* history: the side the last read_and_switch returned
    settled,              \* history: no record_rw was in flight or begun since the last snapshot call
    ref,                  \* history: the finite map the direct calls on one map should leave
    written,              \* history: insert_and_inc calls of write() since the last flip of choose_ball_
    atfork_failed         \* history: pthread_atfork returned an error in init_hard_atfork

vars == <<is_object_destruct, monitor_item, maps, locks, choose_ball_, data_count_,
          mtx_, file_io_info_vec, child, pc, local, ops, pre, ereg, since,
          accepted, returned, retired, settled, ref, written, atfork_failed>>

---------------------------------------------------------------------------
(* Bounds of the model *)

\* calls the single host thread of Spec makes
MaxOps == 5
\* record_rw calls of each writer thread of SpecRot
MaxWrites == 2
\* snapshot calls of the consumer thread of SpecRot
MaxSnapshots == 2
\* record_rw calls of the worker thread of SpecFork
MaxForkEvents == 1
\* snapshot calls of the consumer thread of SpecFork
MaxForkSnapshots == 1
\* calls the host thread of SpecShed makes
MaxShedOps == 6
\* record_rw calls of the writer thread of SpecTwo
MaxTwoEvents == 1
\* snapshot calls of each of the two consumer threads of SpecTwo
MaxTwoSnapshots == 2
\* calls the host thread of SpecReg makes
MaxRegOps == 4
\* calls each of the three threads of SpecLock makes
MaxLockOps == 1
\* calls the host thread of SpecMap makes on one map
MaxMapOps == 4
\* lock calls each of the three threads of SpecTry makes
MaxTryOps == 1
\* insert_and_inc calls each of the three threads of SpecInc makes
MaxIncOps == 1
\* calls the host thread of SpecAtfork makes after the library's constructor
MaxAtforkOps == 3
\* calls each of the three threads of SpecWrap makes
MaxWrapOps == 1
\* longest path SpecKey encodes
MaxKeyLen == 3
\* calls the host thread of SpecKind makes
MaxKindOps == 4
\* buckets and nodes of the maps SpecIter traverses
MaxIterBuckets == 3
MaxIterNodes == 4

(* Program constants.  The two sizes are scaled down so that the overflow    *)
(* and the bucket collisions they decide occur within the bounds.            *)

\* DEFAULT_MAX_DATA_POOL_SIZE (10000 in the source)
max_data_pool_size_ == 1
\* DEFAULT_HASH_BUCKET_SIZE (1031 in the source)
hash_bucket_size_ == 2
\* RWSpinLock::shared_step = 1 << 16
shared_step == 65536
\* RWSpinLock::exclusive_step
exclusive_step == 1
\* FileIoInfoHandler::SEPARATOR_CHAR
SEPARATOR_CHAR == "-"

Threads == 1 .. 3
NoThread == 0
Buckets == 0 .. (hash_bucket_size_ - 1)
MapIds == {"fd_file_name_", "ball_01_", "ball_02_"}

\* FileOperateType
OPEN_TYPE == 0
READ_TYPE == 1
WRITE_TYPE == 2
CLOSE_TYPE == 3
FileOperateType == {OPEN_TYPE, READ_TYPE, WRITE_TYPE, CLOSE_TYPE}

\* const char* file_name: a null pointer, or a string (a sequence of characters)
nullptr == [null |-> TRUE, str |-> <<>>]
CStr(s) == [null |-> FALSE, str |-> s]
\* the paths of the events: the empty string, and a path that holds the separator
Paths == {<<>>, <<"-", "y">>}
\* the descriptors of the sequential specification
Fds == {-1, 0}
RwSizes == {1, 2}
\* the descriptors of the registry specification: 0 and 2 share a bucket
RegFds == {0, 1, 2}

\* Util::get_tid: the kernel thread id of thread t
get_tid(t) == 10 + t

---------------------------------------------------------------------------
(* Integer widths.  A 32-bit lock word is kept as its two 16-bit halves      *)
(* [hi, lo] (hi the shared counter, lo the exclusive counter), and is added  *)
(* to with the carry from lo into hi and modulo 2^32.  The 64-bit counters   *)
(* and byte totals stay far below 2^64 within the bounds of the model and    *)
(* are added without a modulus.                                              *)

Word(n) == [hi |-> (n \div shared_step) % shared_step, lo |-> n % shared_step]

\* (w + step) modulo 2^32
word_add(w, step) ==
    LET lo == w.lo + (step % shared_step) IN
    [hi |-> (w.hi + (step \div shared_step) + (lo \div shared_step)) % shared_step,
     lo |-> lo % shared_step]

\* 2^k modulo n
RECURSIVE Pow2Mod(_, _)
Pow2Mod(k, n) == IF k = 0 THEN 1 % n ELSE (2 * Pow2Mod(k - 1, n)) % n

---------------------------------------------------------------------------
(* Key encoding: combine_key / divide_key *)

Digit == <<"0", "1", "2", "3", "4", "5", "6", "7", "8", "9">>
IsDigit(c) == \E d \in 1 .. 10 : Digit[d] = c
DigitVal(c) == (CHOOSE d \in 1 .. 10 : Digit[d] = c) - 1

\* operator<<(uint64_t): the decimal digits of n
RECURSIVE ToDigits(_)
ToDigits(n) ==
    IF n < 10 THEN <<Digit[n + 1]>>
    ELSE ToDigits(n \div 10) \o <<Digit[(n % 10) + 1]>>

combine_key(tid, file_name) == ToDigits(tid) \o <<SEPARATOR_CHAR>> \o file_name

\* std::atoi on a token without sign or blanks: the value of its leading digits
RECURSIVE atoi_from(_, _, _)
atoi_from(s, i, acc) ==
    IF i > Len(s) \/ ~IsDigit(s[i]) THEN acc
    ELSE atoi_from(s, i + 1, 10 * acc + DigitVal(s[i]))
atoi(s) == atoi_from(s, 1, 0)

\* a faulty search: the index of the last separator
RECURSIVE find_separator_last(_, _)
find_separator_last(key, i) ==
    IF i > Len(key) THEN i
    ELSE LET rest == find_separator_last(key, i + 1) IN
         IF rest <= Len(key) THEN rest
         ELSE IF key[i] = SEPARATOR_CHAR THEN i ELSE rest

\* std::find_if: the index of the first separator, Len(key) + 1 when there is none
RECURSIVE find_separator(_, _)
find_separator(key, i) ==
    IF i > Len(key) \/ key[i] = SEPARATOR_CHAR THEN i
    ELSE find_separator(key, i + 1)

\* divide_key: [rc, tid, file_name]
divide_key(key) ==
    LET next == find_separator(key, 1) IN
    IF next > Len(key)
    THEN [rc |-> -1, tid |-> 0, file_name |-> <<>>]
    ELSE [rc |-> 0,
          tid |-> atoi(SubSeq(key, 1, next - 1)),
          file_name |-> SubSeq(key, next + 1, Len(key))]

---------------------------------------------------------------------------
(* Hashing: hash_fn_(key) % hash_bucket_size_ *)

\* the key of fd_file_name_ is uint64_t: a negative fd stands for 2^64 + fd
hash_fd(fd) == fd

\* std::hash<std::string>: a deterministic function of the characters
Alphabet == Digit \o <<"-", "x", "y">>
CharCode(c) == CHOOSE i \in 1 .. Len(Alphabet) : Alphabet[i] = c
RECURSIVE hash_str_from(_, _, _)
hash_str_from(s, i, acc) ==
    IF i > Len(s) THEN acc
    ELSE hash_str_from(s, i + 1, (31 * acc + CharCode(s[i])) % 65521)
hash_str(s) == hash_str_from(s, 1, 7)

\* std::hash<uint64_t> is the identity
bucket_of_fd(fd) ==
    IF fd >= 0 THEN hash_fd(fd) % hash_bucket_size_
    ELSE (Pow2Mod(64, hash_bucket_size_) + hash_bucket_size_ - ((-fd) % hash_bucket_size_))
            % hash_bucket_size_
bucket_of_key(key) == hash_str(key) % hash_bucket_size_

---------------------------------------------------------------------------
(* RWSpinLock: a lock is [head_, tail_], two 32-bit words *)

NewLock == [head_ |-> Word(0), tail_ |-> Word(0)]

\* a faulty fetch_add: each half of tail_ wraps by itself, without a carry
fetch_add_tail_halves(lk, step) ==
    [lk EXCEPT !.tail_ = [hi |-> (@.hi + (step \div shared_step)) % shared_step,
                          lo |-> (@.lo + (step % shared_step)) % shared_step]]

\* tail_.fetch_add(step): the lock afterwards (the ticket is the old tail_)
fetch_add_tail(lk, step) == [lk EXCEPT !.tail_ = word_add(@, step)]

\* a faulty spin loop: the writer compares the exclusive halves only
write_lock_passes_exclusive(lk, ticket) == ticket.lo = lk.head_.lo

\* a faulty spin loop: the writer never waits
write_lock_passes_always(lk, ticket) == TRUE

\* a faulty spin loop: the writer also waits for the tickets taken after its own
write_lock_passes_alone(lk, ticket) ==
    ticket = lk.head_ /\ lk.tail_ = word_add(ticket, exclusive_step)

\* a faulty spin loop: the reader compares its ticket with the whole of head_
read_lock_passes_unmasked(lk, ticket) == ticket = lk.head_

\* a faulty spin loop: the reader never waits
read_lock_passes_always(lk, ticket) == TRUE

\* write_lock: the ticket taken, and the test of the spin loop
write_ticket(lk) == lk.tail_
write_lock_passes(lk, ticket) == ticket = lk.head_

\* read_lock: the ticket taken (tail &= exclusive_mask, the low half), and the
\* test of the spin loop (head & exclusive_mask)
read_ticket(lk) == [hi |-> 0, lo |-> lk.tail_.lo]
read_lock_passes(lk, ticket) == ticket = [hi |-> 0, lo |-> lk.head_.lo]

\* a faulty try_write_lock: the test of head against tail is left out
try_write_test_none(head, tail) == TRUE

\* try_write_lock: head == tail, of the two values loaded
try_write_test(head, tail) == head = tail

\* try_read_lock: (head & exclusive_mask) == (tail & exclusive_mask)
try_read_test(head, tail) == head.lo = tail.lo

\* tail_.compare_exchange_strong(tail, tail + step): [ok, lock]
compare_exchange_tail(lk, tail, step) ==
    IF lk.tail_ = tail
    THEN [ok |-> TRUE, lock |-> [lk EXCEPT !.tail_ = word_add(tail, step)]]
    ELSE [ok |-> FALSE, lock |-> lk]

\* write_unlock: head_.store(head_.load() + exclusive_step)
write_unlock(lk) == [lk EXCEPT !.head_ = word_add(@, exclusive_step)]

\* read_unlock: head_.fetch_add(shared_step)
read_unlock(lk) == [lk EXCEPT !.head_ = word_add(@, shared_step)]

---------------------------------------------------------------------------
(* HashBucket: a chain is the sequence of the nodes [key, value] from head_ *)

\* the index of the first node with the key, 0 when there is none
RECURSIVE chain_index(_, _, _)
chain_index(chain, key, i) ==
    IF i > Len(chain) THEN 0
    ELSE IF chain[i].key = key THEN i
    ELSE chain_index(chain, key, i + 1)

\* HashBucket::find: [found, value]
HashBucket_find(chain, key) ==
    LET i == chain_index(chain, key, 1) IN
    IF i = 0 THEN [found |-> FALSE, value |-> <<>>]
    ELSE [found |-> TRUE, value |-> chain[i].value]

\* a faulty insert: a node is appended even when the key has one
HashBucket_insert_append(chain, key, value) ==
    Append(chain, [key |-> key, value |-> value])

\* HashBucket::insert: overwrite the node of the key, or append a node
HashBucket_insert(chain, key, value) ==
    LET i == chain_index(chain, key, 1) IN
    IF i = 0 THEN Append(chain, [key |-> key, value |-> value])
    ELSE [chain EXCEPT ![i].value = value]

\* FileRWInfo::operator+=
FileRWInfo_add(a, b) ==
    [read_b |-> a.read_b + b.read_b, write_b |-> a.write_b + b.write_b]

\* a faulty insert_and_inc: the value of the node is replaced
HashBucket_insert_and_inc_replace(chain, key, value) ==
    HashBucket_insert(chain, key, value)

\* HashBucket::insert_and_inc: add to the node of the key, or append a node
HashBucket_insert_and_inc(chain, key, value) ==
    LET i == chain_index(chain, key, 1) IN
    IF i = 0 THEN Append(chain, [key |-> key, value |-> value])
    ELSE [chain EXCEPT ![i].value = FileRWInfo_add(@, value)]

\* a faulty erase: the node stays linked
HashBucket_erase_keep(chain, key) == chain

\* a faulty erase: the head node is unlinked whatever its key
HashBucket_erase_first(chain, key) ==
    IF chain = <<>> THEN chain ELSE Tail(chain)

\* HashBucket::erase: unlink the node of the key, if any
HashBucket_erase(chain, key) ==
    LET i == chain_index(chain, key, 1) IN
    IF i = 0 THEN chain
    ELSE SubSeq(chain, 1, i - 1) \o SubSeq(chain, i + 1, Len(chain))

\* a faulty clear: the nodes stay linked
HashBucket_clear_keep(chain) == chain

\* HashBucket::clear
HashBucket_clear(chain) == <<>>

---------------------------------------------------------------------------
(* ConstIterator: [bucket_pos_, hash_node_], hash_node_ the index of a node *)
(* in the chain of bucket_pos_, 0 for a null pointer                       *)

\* cmp_->hash_bucket_size_: the number of buckets of the map
bucket_count(m) == Cardinality(DOMAIN m)

\* a faulty search: only the bucket at pos is looked at
next_nonempty_adjacent(m, pos) ==
    IF pos < bucket_count(m) /\ Len(m[pos]) > 0 THEN pos ELSE bucket_count(m)

\* the first bucket from pos on whose head_ is not null, the bucket count if none
RECURSIVE next_nonempty(_, _)
next_nonempty(m, pos) ==
    IF pos >= bucket_count(m) THEN bucket_count(m)
    ELSE IF Len(m[pos]) > 0 THEN pos
    ELSE next_nonempty(m, pos + 1)

\* ConstIterator::ConstIterator
ConstIterator_new(m) ==
    LET pos == next_nonempty(m, 0) IN
    IF pos < bucket_count(m)
    THEN [bucket_pos_ |-> pos, hash_node_ |-> 1]
    ELSE [bucket_pos_ |-> bucket_count(m), hash_node_ |-> 0]

\* ConstIterator::operator++
ConstIterator_inc(m, it) ==
    IF it.hash_node_ = 0 THEN it
    ELSE IF it.hash_node_ < Len(m[it.bucket_pos_])
    THEN [it EXCEPT !.hash_node_ = @ + 1]
    ELSE LET pos == next_nonempty(m, it.bucket_pos_ + 1) IN
         IF pos < bucket_count(m)
         THEN [bucket_pos_ |-> pos, hash_node_ |-> 1]
         ELSE [bucket_pos_ |-> pos, hash_node_ |-> 0]

\* the loop of consume_and_parse: one FileInfo per node whose key divides
RECURSIVE parse_all(_, _, _)
parse_all(m, it, vec) ==
    IF it.hash_node_ = 0 THEN vec
    ELSE LET node == m[it.bucket_pos_][it.hash_node_]
             d == divide_key(node.key)
         IN parse_all(m, ConstIterator_inc(m, it),
                IF d.rc < 0 THEN vec
                ELSE Append(vec, [tid |-> d.tid, file_name |-> d.file_name,
                                  read_b |-> node.value.read_b,
                                  write_b |-> node.value.write_b]))

\* a faulty comparison: ascending
sort_before_ascending(left, right) ==
    left.read_b + left.write_b < right.read_b + right.write_b

\* the comparison of the std::sort call
sort_before(left, right) ==
    left.read_b + left.write_b > right.read_b + right.write_b

\* std::sort: every order of the records in which no record stands before one
\* that sort_before puts in front of it (the order of ties is unspecified)
sort_results(vec) ==
    LET n == Len(vec) IN
    { [i \in 1 .. n |-> vec[p[i]]] : p \in
        { q \in Permutations(1 .. n) :
            \A i, j \in 1 .. n : i < j => ~sort_before(vec[q[j]], vec[q[i]]) } }

---------------------------------------------------------------------------
(* The state *)

Balls == {"ball_01_", "ball_02_"}
NoBall == "none"

\* the side write() targets / the other side, for a value of choose_ball_
active_ball(choose) == IF choose THEN "ball_01_" ELSE "ball_02_"
idle_ball(choose) == IF choose THEN "ball_02_" ELSE "ball_01_"

\* a faulty overflow test: >= for >
size_exceeds_ge(n) == n >= max_data_pool_size_

\* data_pool_.size() > max_data_pool_size_
size_exceeds(n) == n > max_data_pool_size_

\* a faulty mutex: lock() returns at once
mtx_free_always(m) == TRUE

\* std::mutex: lock() returns once no thread owns the mutex
mtx_free(m) == m = NoThread

\* a handler without the check of is_object_destruct
destruct_check_skipped(flag) == FALSE

\* if (__glibc_unlikely(is_object_destruct)) return;
destruct_check(flag) == flag

ZeroCounters ==
    [open_func_call_num |-> 0, close_func_call_num |-> 0,
     read_func_call_num |-> 0, write_func_call_num |-> 0,
     api_oc_param_error_num |-> 0, api_rw_param_error_num |-> 0,
     exceed_data_pool_size_drop_num |-> 0, not_found_fd_file_name_num |-> 0]

LocalInit ==
    [op |-> "none", type |-> OPEN_TYPE, fd |-> 0, file_name |-> nullptr,
     rw_size |-> 0, key |-> <<>>, map |-> "fd_file_name_", bucket |-> 0,
     ticket |-> Word(0), ball |-> NoBall, ahead |-> {},
     value |-> [read_b |-> 0, write_b |-> 0], node |-> 0, prev |-> 0, found |-> FALSE,
     head |-> Word(0), it |-> [bucket_pos_ |-> 0, hash_node_ |-> 0], seen |-> <<>>,
     tid |-> 0, divided |-> [rc |-> 0, tid |-> 0, file_name |-> <<>>]]

NoChild == [state |-> "none", mtx_ |-> NoThread,
            locks |-> [m \in MapIds |-> [b \in Buckets |-> NewLock]]]

ValidFds == {fd \in Fds \cup RegFds : fd >= 0}

\* the state a call starts in, as far as the claims compare it with the state at return
Shot ==
    [destruct |-> is_object_destruct, maps |-> maps, data_count_ |-> data_count_,
     monitor_item |-> monitor_item, choose_ball_ |-> choose_ball_,
     ereg |-> ereg, since |-> since]

\* the static-storage state of the process before any call
InitFrom(budget, ms, lks, start) ==
    /\ is_object_destruct = FALSE
    /\ monitor_item = ZeroCounters
    /\ maps = ms
    /\ locks = lks
    /\ choose_ball_ = TRUE
    /\ data_count_ = 0
    /\ mtx_ = NoThread
    /\ file_io_info_vec = <<>>
    /\ child = NoChild
    /\ pc = start
    /\ local = [t \in Threads |-> LocalInit]
    /\ ops = budget
    /\ pre = [t \in Threads |-> <<>>]
    /\ ereg = [fd \in ValidFds |-> <<>>]
    /\ since = <<>>
    /\ accepted = <<>>
    /\ returned = <<>>
    /\ retired = NoBall
    /\ settled = FALSE
    /\ ref = <<>>
    /\ written = 0
    /\ atfork_failed = FALSE

\* the maps and the locks as their constructors leave them, no thread in a call
EmptyMaps == [m \in MapIds |-> [b \in Buckets |-> <<>>]]
NewLocks == [m \in MapIds |-> [b \in Buckets |-> NewLock]]
AllIdle == [t \in Threads |-> "idle"]
InitState(budget, ms) == InitFrom(budget, ms, NewLocks, AllIdle)
InitWith(budget) == InitState(budget, EmptyMaps)

shared == <<is_object_destruct, monitor_item, maps, locks, choose_ball_,
            data_count_, mtx_, file_io_info_vec, child>>
hist == <<pre, ereg, since, accepted, returned, retired, settled, ref, written, atfork_failed>>

goto(t, label) == pc' = [pc EXCEPT ![t] = label]
count(field) == monitor_item' = [monitor_item EXCEPT ![field] = @ + 1]
tracked(t) == pre[t] # <<>>

\* history: v added to the entry of k
AddBytes(f, k, v) ==
    IF k \in DOMAIN f THEN [f EXCEPT ![k] = FileRWInfo_add(@, v)]
    ELSE f @@ (k :> v)

RECURSIVE AddRecords(_, _, _)
AddRecords(f, vec, i) ==
    IF i > Len(vec) THEN f
    ELSE AddRecords(AddBytes(f, <<vec[i].tid, vec[i].file_name>>,
                        [read_b |-> vec[i].read_b, write_b |-> vec[i].write_b]),
                    vec, i + 1)

\* history: the registry the calls so far should have left
ExpectRegistry(e, type, fd, file_name) ==
    IF fd < 0 \/ file_name.null THEN e
    ELSE IF type = OPEN_TYPE THEN [e EXCEPT ![fd] = <<file_name.str>>]
    ELSE IF type = CLOSE_TYPE THEN [e EXCEPT ![fd] = <<>>]
    ELSE e

---------------------------------------------------------------------------
(* Calls: a thread that is idle enters a handler *)

call_add_hook_info_oc(t, type, fd, file_name, track) ==
    /\ pc[t] = "idle" /\ ops[t] > 0
    /\ goto(t, "oc_entry")
    /\ local' = [local EXCEPT ![t] = [LocalInit EXCEPT !.op = "oc", !.type = type,
                                         !.fd = fd, !.file_name = file_name]]
    /\ ops' = [ops EXCEPT ![t] = @ - 1]
    /\ pre' = [pre EXCEPT ![t] = IF track THEN <<Shot>> ELSE <<>>]
    /\ ereg' = IF track /\ ~is_object_destruct
               THEN ExpectRegistry(ereg, type, fd, file_name) ELSE ereg
    /\ UNCHANGED <<shared, since, accepted, returned, retired, settled, ref, written, atfork_failed>>

call_add_hook_info_rw(t, type, fd, rw_size, track) ==
    /\ pc[t] = "idle" /\ ops[t] > 0
    /\ goto(t, "rw_entry")
    /\ local' = [local EXCEPT ![t] = [LocalInit EXCEPT !.op = "rw", !.type = type,
                                         !.fd = fd, !.rw_size = rw_size]]
    /\ ops' = [ops EXCEPT ![t] = @ - 1]
    /\ pre' = [pre EXCEPT ![t] = IF track THEN <<Shot>> ELSE <<>>]
    /\ settled' = FALSE
    /\ UNCHANGED <<shared, ereg, since, accepted, returned, retired, ref, written, atfork_failed>>

call_consume_and_parse(t, track) ==
    /\ pc[t] = "idle" /\ ops[t] > 0
    /\ goto(t, "cp_entry")
    /\ local' = [local EXCEPT ![t] = [LocalInit EXCEPT !.op = "cp"]]
    /\ ops' = [ops EXCEPT ![t] = @ - 1]
    /\ pre' = [pre EXCEPT ![t] = IF track THEN <<Shot>> ELSE <<>>]
    /\ since' = <<>>
    /\ retired' = NoBall
    /\ settled' = \A u \in Threads \ {t} : pc[u] = "idle"
    /\ UNCHANGED <<shared, ereg, accepted, returned, ref, written, atfork_failed>>

\* a store that always reaches the flag the handlers read
destruct_store_own(own, flag) == TRUE

\* is_object_destruct = true, in an inline member function of hook_io_handle.h.
\* The flag is a static variable of that header, so every translation unit has
\* a copy of it, and the inline function stores to the copy of the unit whose
\* code the build runs for it: own says whether that is the copy the handlers
\* of hook_io_handle.cpp read
destruct_store(own, flag) == IF own THEN TRUE ELSE flag

\* FileIoInfoHandler::set_destruct_status, as the atexit handler calls it
set_destruct_status(t) ==
    /\ pc[t] = "idle" /\ ops[t] > 0
    /\ \E own \in BOOLEAN : is_object_destruct' = destruct_store(own, is_object_destruct)
    /\ ops' = [ops EXCEPT ![t] = @ - 1]
    /\ UNCHANGED <<monitor_item, maps, locks, choose_ball_, data_count_, mtx_,
                   file_io_info_vec, child, pc, local, hist>>

\* FileIoInfoHandler::~FileIoInfoHandler, inline in the header like
\* set_destruct_status
FileIoInfoHandler_destructor(t) ==
    /\ pc[t] = "idle" /\ ops[t] > 0
    /\ \E own \in BOOLEAN : is_object_destruct' = destruct_store(own, is_object_destruct)
    /\ ops' = [ops EXCEPT ![t] = @ - 1]
    /\ UNCHANGED <<monitor_item, maps, locks, choose_ball_, data_count_, mtx_,
                   file_io_info_vec, child, pc, local, hist>>

\* the values pthread_atfork returns: 0, or ENOMEM
AtforkResults == {0, 12}

\* init_hard_atfork, run by the constructor of the library: when pthread_atfork
\* fails, io_hook.cpp calls set_destruct_status
init_hard_atfork(t) ==
    /\ pc[t] = "atfork"
    /\ \E res \in AtforkResults, own \in BOOLEAN :
          /\ atfork_failed' = (res # 0)
          /\ is_object_destruct' = IF res # 0
                                   THEN destruct_store(own, is_object_destruct)
                                   ELSE is_object_destruct
    /\ local' = [local EXCEPT ![t] = [LocalInit EXCEPT !.op = "atfork"]]
    /\ goto(t, "ret")
    /\ UNCHANGED <<monitor_item, maps, locks, choose_ball_, data_count_, mtx_,
                   file_io_info_vec, child, ops, pre, ereg, since, accepted, returned,
                   retired, settled, ref, written>>

\* the handler returns
ret(t) ==
    /\ pc[t] = "ret"
    /\ goto(t, "idle")
    /\ local' = [local EXCEPT ![t] = LocalInit]
    /\ pre' = [pre EXCEPT ![t] = <<>>]
    /\ UNCHANGED <<shared, ops, ereg, since, accepted, returned, retired, settled, ref, written, atfork_failed>>

---------------------------------------------------------------------------
(* RWSpinLock steps on the bucket local[t].map, local[t].bucket *)

my_lock(t) == locks[local[t].map][local[t].bucket]
my_chain(t) == maps[local[t].map][local[t].bucket]
set_my_lock(t, lk) ==
    locks' = [locks EXCEPT ![local[t].map][local[t].bucket] = lk]
set_my_chain(t, chain) ==
    maps' = [maps EXCEPT ![local[t].map][local[t].bucket] = chain]

\* thread u has taken a ticket of the lock of bucket b of map m and has not
\* unlocked it
on_lock(u, m, b) ==
    /\ pc[u] \in {"wl_spin", "wl_held", "rl_spin", "rl_held"}
    /\ local[u].map = m /\ local[u].bucket = b
\* history: the other threads on the lock thread t takes a ticket of, each with
\* the number of calls it has left, which tells its calls apart
arrived_before(t) ==
    { <<u, ops[u]>> : u \in {v \in Threads \ {t} : on_lock(v, local[t].map, local[t].bucket)} }

\* write_lock: tail_.fetch_add(exclusive_step)
write_lock_ticket(t) ==
    /\ pc[t] = "wl_ticket"
    /\ local' = [local EXCEPT ![t].ticket = write_ticket(my_lock(t)),
                              ![t].ahead = arrived_before(t)]
    /\ set_my_lock(t, fetch_add_tail(my_lock(t), exclusive_step))
    /\ goto(t, "wl_spin")
    /\ UNCHANGED <<is_object_destruct, monitor_item, maps, choose_ball_, data_count_,
                   mtx_, file_io_info_vec, child, ops, hist>>

\* write_lock: the load of head_ that ends the spin loop
write_lock_spin(t) ==
    /\ pc[t] = "wl_spin"
    /\ write_lock_passes(my_lock(t), local[t].ticket)
    /\ goto(t, "wl_held")
    /\ UNCHANGED <<shared, local, ops, hist>>

\* read_lock: tail_.fetch_add(shared_step)
read_lock_ticket(t) ==
    /\ pc[t] = "rl_ticket"
    /\ local' = [local EXCEPT ![t].ticket = read_ticket(my_lock(t)),
                              ![t].ahead = arrived_before(t)]
    /\ set_my_lock(t, fetch_add_tail(my_lock(t), shared_step))
    /\ goto(t, "rl_spin")
    /\ UNCHANGED <<is_object_destruct, monitor_item, maps, choose_ball_, data_count_,
                   mtx_, file_io_info_vec, child, ops, hist>>

\* read_lock: the load of head_ that ends the spin loop
read_lock_spin(t) ==
    /\ pc[t] = "rl_spin"
    /\ read_lock_passes(my_lock(t), local[t].ticket)
    /\ goto(t, "rl_held")
    /\ UNCHANGED <<shared, local, ops, hist>>

---------------------------------------------------------------------------
(* FileIoInfoHandler::add_hook_info(type, fd, file_name) *)

\* a faulty argument check: the null pointer passes
bad_oc_args_fd_only(fd, file_name) == fd < 0

\* if (fd < 0 || file_name == nullptr)
bad_oc_args(fd, file_name) == fd < 0 \/ file_name.null

\* a faulty check of the kind: every kind passes
bad_oc_type_none(type) == FALSE

\* if (type != FileOperateType::OPEN_TYPE && type != FileOperateType::CLOSE_TYPE)
bad_oc_type(type) == type # OPEN_TYPE /\ type # CLOSE_TYPE

\* the checks, the call counter, and the bucket the map operation goes to;
\* the default case of the switch counts nothing and returns
add_hook_info_oc_entry(t) ==
    /\ pc[t] = "oc_entry"
    /\ IF destruct_check(is_object_destruct)
       THEN /\ goto(t, "ret")
            /\ UNCHANGED <<monitor_item, local>>
       ELSE IF bad_oc_type(local[t].type)
       THEN /\ count("api_oc_param_error_num")
            /\ goto(t, "ret")
            /\ UNCHANGED local
       ELSE IF bad_oc_args(local[t].fd, local[t].file_name)
       THEN /\ count("api_oc_param_error_num")
            /\ goto(t, "ret")
            /\ UNCHANGED local
       ELSE IF local[t].type \in {OPEN_TYPE, CLOSE_TYPE}
       THEN /\ count(IF local[t].type = OPEN_TYPE THEN "open_func_call_num"
                     ELSE "close_func_call_num")
            /\ local' = [local EXCEPT ![t].map = "fd_file_name_",
                                      ![t].bucket = bucket_of_fd(local[t].fd)]
            /\ goto(t, "wl_ticket")
       ELSE /\ goto(t, "ret")
            /\ UNCHANGED <<monitor_item, local>>
    /\ UNCHANGED <<is_object_destruct, maps, locks, choose_ball_, data_count_, mtx_,
                   file_io_info_vec, child, ops, hist>>

\* fd_file_name_.insert(fd, file_name) under the bucket's write lock
HashBucket_insert_cs(t) ==
    /\ pc[t] = "wl_held" /\ local[t].op = "oc" /\ local[t].type = OPEN_TYPE
    /\ set_my_chain(t, HashBucket_insert(my_chain(t), hash_fd(local[t].fd), local[t].file_name.str))
    /\ set_my_lock(t, write_unlock(my_lock(t)))
    /\ goto(t, "ret")
    /\ UNCHANGED <<is_object_destruct, monitor_item, choose_ball_, data_count_, mtx_,
                   file_io_info_vec, child, local, ops, hist>>

\* fd_file_name_.erase(fd) under the bucket's write lock
HashBucket_erase_cs(t) ==
    /\ pc[t] = "wl_held" /\ local[t].op = "oc" /\ local[t].type = CLOSE_TYPE
    /\ set_my_chain(t, HashBucket_erase(my_chain(t), hash_fd(local[t].fd)))
    /\ set_my_lock(t, write_unlock(my_lock(t)))
    /\ goto(t, "ret")
    /\ UNCHANGED <<is_object_destruct, monitor_item, choose_ball_, data_count_, mtx_,
                   file_io_info_vec, child, local, ops, hist>>

---------------------------------------------------------------------------
(* FileIoInfoHandler::add_hook_info(type, fd, rw_size) *)

\* a faulty check of the kind: every kind passes
bad_rw_type_none(type) == FALSE

\* if (type != FileOperateType::READ_TYPE && type != FileOperateType::WRITE_TYPE)
bad_rw_type(type) == type # READ_TYPE /\ type # WRITE_TYPE

add_hook_info_rw_entry(t) ==
    /\ pc[t] = "rw_entry"
    /\ IF destruct_check(is_object_destruct)
       THEN /\ goto(t, "ret")
            /\ UNCHANGED monitor_item
       ELSE IF bad_rw_type(local[t].type)
       THEN /\ count("api_rw_param_error_num")
            /\ goto(t, "ret")
       ELSE /\ goto(t, "rw_size")
            /\ UNCHANGED monitor_item
    /\ UNCHANGED <<is_object_destruct, maps, locks, choose_ball_, data_count_, mtx_,
                   file_io_info_vec, child, local, ops, hist>>

\* if (data_pool_.size() > max_data_pool_size_): the read of data_count_
add_hook_info_rw_size(t) ==
    /\ pc[t] = "rw_size"
    /\ IF size_exceeds(data_count_)
       THEN /\ count("exceed_data_pool_size_drop_num")
            /\ goto(t, "ret")
            /\ UNCHANGED local
       ELSE /\ local' = [local EXCEPT ![t].map = "fd_file_name_",
                                      ![t].bucket = bucket_of_fd(local[t].fd)]
            /\ goto(t, "rl_ticket")
            /\ UNCHANGED monitor_item
    /\ UNCHANGED <<is_object_destruct, maps, locks, choose_ball_, data_count_, mtx_,
                   file_io_info_vec, child, ops, hist>>

\* the bytes of the event, as add_hook_info hands them to write()
rw_value(type, rw_size) ==
    IF type = READ_TYPE THEN [read_b |-> rw_size, write_b |-> 0]
    ELSE [read_b |-> 0, write_b |-> rw_size]

\* fd_file_name_.find(fd, file_name) under the bucket's read lock, then the
\* not-found counter, or combine_key and the call counter; the default case
\* of the switch counts nothing and returns
HashBucket_find_cs(t) ==
    /\ pc[t] = "rl_held" /\ local[t].op = "rw"
    /\ set_my_lock(t, read_unlock(my_lock(t)))
    /\ LET r == HashBucket_find(my_chain(t), hash_fd(local[t].fd)) IN
       IF ~r.found
       THEN /\ count("not_found_fd_file_name_num")
            /\ goto(t, "ret")
            /\ UNCHANGED <<local, accepted, since>>
       ELSE IF local[t].type \notin {READ_TYPE, WRITE_TYPE}
       THEN /\ local' = [local EXCEPT ![t].key = combine_key(get_tid(t), r.value)]
            /\ goto(t, "ret")
            /\ UNCHANGED <<monitor_item, accepted, since>>
       ELSE /\ count(IF local[t].type = READ_TYPE THEN "read_func_call_num"
                     ELSE "write_func_call_num")
            /\ local' = [local EXCEPT ![t].key = combine_key(get_tid(t), r.value)]
            /\ IF tracked(t)
               THEN /\ since' = AddBytes(since, <<local[t].fd, ereg[local[t].fd]>>,
                                         rw_value(local[t].type, local[t].rw_size))
                    /\ UNCHANGED accepted
               ELSE /\ accepted' = AddBytes(accepted, <<get_tid(t), r.value>>,
                                            rw_value(local[t].type, local[t].rw_size))
                    /\ UNCHANGED since
            /\ goto(t, "write_mtx")
    /\ UNCHANGED <<is_object_destruct, maps, choose_ball_, data_count_, mtx_,
                   file_io_info_vec, child, ops, pre, ereg, returned, retired, settled, ref, written, atfork_failed>>

\* DoubleBallModule::write: mtx_.lock() and the choice of the ball
DoubleBallModule_write_lock(t) ==
    /\ pc[t] = "write_mtx"
    /\ mtx_free(mtx_)
    /\ mtx_' = t
    /\ local' = [local EXCEPT ![t].ball = active_ball(choose_ball_),
                              ![t].map = active_ball(choose_ball_),
                              ![t].bucket = bucket_of_key(local[t].key)]
    /\ goto(t, "wl_ticket")
    /\ UNCHANGED <<is_object_destruct, monitor_item, maps, locks, choose_ball_,
                   data_count_, file_io_info_vec, child, ops, hist>>

\* ball->insert_and_inc(key, value) under the bucket's write lock
HashBucket_insert_and_inc_cs(t) ==
    /\ pc[t] = "wl_held" /\ local[t].op = "rw"
    /\ set_my_chain(t, HashBucket_insert_and_inc(my_chain(t), local[t].key,
                           rw_value(local[t].type, local[t].rw_size)))
    /\ set_my_lock(t, write_unlock(my_lock(t)))
    /\ written' = written + 1
    /\ goto(t, "write_unlock")
    /\ UNCHANGED <<is_object_destruct, monitor_item, choose_ball_, data_count_, mtx_,
                   file_io_info_vec, child, local, ops, pre, ereg, since, accepted,
                   returned, retired, settled, ref, atfork_failed>>

\* DoubleBallModule::write: data_count_++ and mtx_.unlock()
DoubleBallModule_write_unlock(t) ==
    /\ pc[t] = "write_unlock"
    /\ data_count_' = data_count_ + 1
    /\ mtx_' = NoThread
    /\ goto(t, "ret")
    /\ UNCHANGED <<is_object_destruct, monitor_item, maps, locks, choose_ball_,
                   file_io_info_vec, child, local, ops, hist>>

---------------------------------------------------------------------------
(* FileIoInfoHandler::consume_and_parse and DoubleBallModule::read_and_switch *)

\* a consume_and_parse without the clear of the static vector
vector_kept(vec) == vec

\* file_io_info_vec.clear()
vector_clear(vec) == <<>>

\* file_io_info_vec.clear() and the check of is_object_destruct
consume_and_parse_entry(t) ==
    /\ pc[t] = "cp_entry"
    /\ file_io_info_vec' = vector_clear(file_io_info_vec)
    /\ goto(t, IF destruct_check(is_object_destruct) THEN "ret" ELSE "rs_choose")
    /\ UNCHANGED <<is_object_destruct, monitor_item, maps, locks, choose_ball_,
                   data_count_, mtx_, child, local, ops, hist>>

\* a faulty read_and_switch: the registry is cleared
clear_target_registry(choose) == "fd_file_name_"

\* a faulty read_and_switch: the side being written is cleared
clear_target_active(choose) == active_ball(choose)

\* the side read_and_switch clears before it takes the mutex
clear_target(choose) == idle_ball(choose)

\* choose_ball_ ? ball_02_.clear() : ball_01_.clear(): the read of choose_ball_
read_and_switch_choose(t) ==
    /\ pc[t] = "rs_choose"
    /\ local' = [local EXCEPT ![t].map = clear_target(choose_ball_), ![t].bucket = 0]
    /\ goto(t, "wl_ticket")
    /\ UNCHANGED <<shared, ops, hist>>

\* ConcurrentHashMap::clear: one bucket's clear() under its write lock
HashBucket_clear_cs(t) ==
    /\ pc[t] = "wl_held" /\ local[t].op = "cp"
    /\ set_my_chain(t, HashBucket_clear(my_chain(t)))
    /\ set_my_lock(t, write_unlock(my_lock(t)))
    /\ IF local[t].bucket + 1 < hash_bucket_size_
       THEN /\ local' = [local EXCEPT ![t].bucket = @ + 1]
            /\ goto(t, "wl_ticket")
       ELSE /\ goto(t, "rs_mtx")
            /\ UNCHANGED local
    /\ UNCHANGED <<is_object_destruct, monitor_item, choose_ball_, data_count_, mtx_,
                   file_io_info_vec, child, ops, hist>>

\* read_and_switch: mtx_.lock()
read_and_switch_lock(t) ==
    /\ pc[t] = "rs_mtx"
    /\ mtx_free(mtx_)
    /\ mtx_' = t
    /\ goto(t, "rs_flip")
    /\ UNCHANGED <<is_object_destruct, monitor_item, maps, locks, choose_ball_,
                   data_count_, file_io_info_vec, child, local, ops, hist>>

\* a faulty read_and_switch: data_count_ is left as it is
data_count_kept(n) == n

\* read_and_switch: data_count_ = 0
data_count_reset(n) == 0

\* read_and_switch: res, the flip, data_count_ = 0, mtx_.unlock(), return *res
read_and_switch_flip(t) ==
    /\ pc[t] = "rs_flip"
    /\ local' = [local EXCEPT ![t].ball = active_ball(choose_ball_)]
    /\ choose_ball_' = ~choose_ball_
    /\ data_count_' = data_count_reset(data_count_)
    /\ mtx_' = NoThread
    /\ retired' = active_ball(choose_ball_)
    /\ written' = 0
    /\ goto(t, "cp_iterate")
    /\ UNCHANGED <<is_object_destruct, monitor_item, maps, locks, file_io_info_vec,
                   child, ops, pre, ereg, since, accepted, returned, settled, ref,
                   atfork_failed>>

\* another thread is in a clear or an insert on the side thread t iterates: the
\* iterator takes no lock, so its reads race with the unlinking of the nodes
racing(t) ==
    \E u \in Threads \ {t} :
        /\ pc[u] \in {"wl_ticket", "wl_spin", "wl_held"}
        /\ local[u].map = local[t].ball

\* what a racing iteration may see of the chains: of every bucket, the nodes up
\* to some node
Prefixes(m) ==
    { v \in [Buckets -> UNION { { SubSeq(m[b], 1, n) : n \in 0 .. Len(m[b]) } : b \in Buckets }] :
         \A b \in Buckets : \E n \in 0 .. Len(m[b]) : v[b] = SubSeq(m[b], 1, n) }

\* the loop over the returned side and the std::sort
consume_and_parse_iterate(t) ==
    /\ pc[t] = "cp_iterate"
    /\ \E io_data \in (IF racing(t) THEN Prefixes(maps[local[t].ball])
                        ELSE {maps[local[t].ball]}) :
       \E vec \in sort_results(parse_all(io_data, ConstIterator_new(io_data), <<>>)) :
          /\ file_io_info_vec' = vec
          /\ returned' = IF tracked(t) THEN returned ELSE AddRecords(returned, vec, 1)
    /\ goto(t, "ret")
    /\ UNCHANGED <<is_object_destruct, monitor_item, maps, locks, choose_ball_,
                   data_count_, mtx_, child, local, ops, pre, ereg, since, accepted,
                   retired, settled, ref, written, atfork_failed>>

---------------------------------------------------------------------------
(* fork: io_hook_prefork, fork, io_hook_postfork_parent, io_hook_postfork_child *)

call_fork(t) ==
    /\ pc[t] = "idle" /\ ops[t] > 0
    /\ child.state = "none"
    /\ goto(t, "pf_mtx")
    /\ local' = [local EXCEPT ![t] = [LocalInit EXCEPT !.op = "fork"]]
    /\ ops' = [ops EXCEPT ![t] = @ - 1]
    /\ UNCHANGED <<shared, hist>>

\* DoubleBallModule::lock_prefork: mtx_.lock()
DoubleBallModule_lock_prefork(t) ==
    /\ pc[t] = "pf_mtx"
    /\ mtx_free(mtx_)
    /\ mtx_' = t
    /\ local' = [local EXCEPT ![t].map = "fd_file_name_", ![t].bucket = 0]
    /\ goto(t, "wl_ticket")
    /\ UNCHANGED <<is_object_destruct, monitor_item, maps, locks, choose_ball_,
                   data_count_, file_io_info_vec, child, ops, hist>>

\* ConcurrentHashMap::lock_prefork on fd_file_name_: the bucket's write lock is
\* kept, and the loop goes to the next bucket
HashBucket_lock_prefork(t) ==
    /\ pc[t] = "wl_held" /\ local[t].op = "fork"
    /\ IF local[t].bucket + 1 < hash_bucket_size_
       THEN /\ local' = [local EXCEPT ![t].bucket = @ + 1]
            /\ goto(t, "wl_ticket")
       ELSE /\ goto(t, "fork")
            /\ UNCHANGED local
    /\ UNCHANGED <<shared, ops, hist>>

\* faulty postfork handlers: no bucket lock is released
postfork_unlock_none(lks) == lks

\* what lock_postfork_parent and lock_postfork_child do to the locks they see:
\* write_unlock on every bucket of fd_file_name_
postfork_unlock(lks) ==
    [lks EXCEPT !["fd_file_name_"] = [b \in Buckets |-> write_unlock(@[b])]]

\* fork(): the child starts with a copy of the memory and the forking thread only
fork(t) ==
    /\ pc[t] = "fork"
    /\ child' = [state |-> "forked", mtx_ |-> mtx_, locks |-> locks]
    /\ goto(t, "postfork_parent")
    /\ UNCHANGED <<is_object_destruct, monitor_item, maps, locks, choose_ball_,
                   data_count_, mtx_, file_io_info_vec, local, ops, hist>>

\* FileIoInfoHandler::lock_postfork_parent
lock_postfork_parent(t) ==
    /\ pc[t] = "postfork_parent"
    /\ mtx_' = NoThread
    /\ locks' = postfork_unlock(locks)
    /\ goto(t, "ret")
    /\ UNCHANGED <<is_object_destruct, monitor_item, maps, choose_ball_, data_count_,
                   file_io_info_vec, child, local, ops, hist>>

\* FileIoInfoHandler::lock_postfork_child, run by the child on its copy
lock_postfork_child ==
    /\ child.state = "forked"
    /\ child' = [state |-> "running", mtx_ |-> NoThread,
                 locks |-> postfork_unlock(child.locks)]
    /\ UNCHANGED <<is_object_destruct, monitor_item, maps, locks, choose_ball_,
                   data_count_, mtx_, file_io_info_vec, pc, local, ops, hist>>

---------------------------------------------------------------------------
(* ConcurrentHashMap<std::string, FileRWInfo> called directly: find, insert, *)
(* insert_and_inc, erase and clear on the map TestMap                        *)

TestMap == "ball_01_"
\* keys of which "y" and "-" hash to one bucket and "x" to the other
MapKeys == {<<"x">>, <<"y">>, <<"-">>}
MapValues == {[read_b |-> 1, write_b |-> 0], [read_b |-> 0, write_b |-> 2]}
MapOps == {"find", "insert", "insert_and_inc", "erase", "clear"}

\* history: the finite map f after the operation
ref_apply(f, op, key, value) ==
    IF op = "insert" THEN [k \in DOMAIN f \cup {key} |-> IF k = key THEN value ELSE f[k]]
    ELSE IF op = "insert_and_inc"
    THEN [k \in DOMAIN f \cup {key} |->
             IF k # key THEN f[k]
             ELSE IF key \in DOMAIN f
             THEN [read_b |-> f[k].read_b + value.read_b,
                   write_b |-> f[k].write_b + value.write_b]
             ELSE value]
    ELSE IF op = "erase" THEN [k \in DOMAIN f \ {key} |-> f[k]]
    ELSE IF op = "clear" THEN [k \in {} |-> value]
    ELSE f

\* ConcurrentHashMap::find / insert / insert_and_inc / erase / clear: the hash
\* of the key chooses the bucket (clear starts at bucket 0)
call_map(t, op, key, value) ==
    /\ pc[t] = "idle" /\ ops[t] > 0
    /\ goto(t, IF op = "find" THEN "rl_ticket" ELSE "wl_ticket")
    /\ local' = [local EXCEPT ![t] =
                    [LocalInit EXCEPT !.op = op, !.key = key, !.value = value,
                                      !.map = TestMap,
                                      !.bucket = IF op = "clear" THEN 0
                                                 ELSE bucket_of_key(key)]]
    /\ ops' = [ops EXCEPT ![t] = @ - 1]
    /\ ref' = ref_apply(ref, op, key, value)
    /\ UNCHANGED <<shared, pre, ereg, since, accepted, returned, retired, settled,
                   written, atfork_failed>>

\* HashBucket::find under the bucket's read lock
Map_find_cs(t) ==
    /\ pc[t] = "rl_held" /\ local[t].op = "find"
    /\ set_my_lock(t, read_unlock(my_lock(t)))
    /\ LET r == HashBucket_find(my_chain(t), local[t].key) IN
       local' = [local EXCEPT ![t].found = r.found,
                              ![t].value = IF r.found THEN r.value ELSE @]
    /\ goto(t, "ret")
    /\ UNCHANGED <<is_object_destruct, monitor_item, maps, choose_ball_, data_count_,
                   mtx_, file_io_info_vec, child, ops, hist>>

\* HashBucket::insert under the bucket's write lock
Map_insert_cs(t) ==
    /\ pc[t] = "wl_held" /\ local[t].op = "insert"
    /\ set_my_chain(t, HashBucket_insert(my_chain(t), local[t].key, local[t].value))
    /\ set_my_lock(t, write_unlock(my_lock(t)))
    /\ goto(t, "ret")
    /\ UNCHANGED <<is_object_destruct, monitor_item, choose_ball_, data_count_, mtx_,
                   file_io_info_vec, child, local, ops, hist>>

\* HashBucket::insert_and_inc: the loop that looks for the node of the key;
\* node is its index (0 for a null pointer), prev the index of the node before
Map_insert_and_inc_walk(t) ==
    /\ pc[t] = "wl_held" /\ local[t].op = "insert_and_inc"
    /\ LET i == chain_index(my_chain(t), local[t].key, 1) IN
       local' = [local EXCEPT ![t].node = i,
                              ![t].prev = IF i = 0 THEN Len(my_chain(t)) ELSE i - 1]
    /\ goto(t, "inc_link")
    /\ UNCHANGED <<shared, ops, hist>>

\* the chain is as the loop of thread t left it
walk_is_current(t) ==
    /\ local[t].node = chain_index(my_chain(t), local[t].key, 1)
    /\ local[t].node = 0 => local[t].prev = Len(my_chain(t))

\* HashBucket::insert_and_inc: the new node linked at head_ or at prev->next_,
\* or the value of the node added to, then write_unlock.  Where the chain has
\* changed since the loop, the pointers of the loop are used as they are; a
\* pointer that has become invalid is not followed, the call does not return
Map_insert_and_inc_link(t) ==
    /\ pc[t] = "inc_link"
    /\ LET chain == my_chain(t)
           new == [key |-> local[t].key, value |-> local[t].value]
       IN IF walk_is_current(t)
          THEN set_my_chain(t, HashBucket_insert_and_inc(chain, local[t].key, local[t].value))
          ELSE IF local[t].node = 0
          THEN IF chain = <<>> THEN set_my_chain(t, <<new>>)
               ELSE /\ local[t].prev \in 1 .. Len(chain)
                    /\ set_my_chain(t, SubSeq(chain, 1, local[t].prev) \o <<new>>)
          ELSE /\ local[t].node \in 1 .. Len(chain)
               /\ set_my_chain(t, [chain EXCEPT ![local[t].node].value =
                                      FileRWInfo_add(@, local[t].value)])
    /\ set_my_lock(t, write_unlock(my_lock(t)))
    /\ goto(t, "ret")
    /\ UNCHANGED <<is_object_destruct, monitor_item, choose_ball_, data_count_, mtx_,
                   file_io_info_vec, child, local, ops, hist>>

\* HashBucket::erase under the bucket's write lock
Map_erase_cs(t) ==
    /\ pc[t] = "wl_held" /\ local[t].op = "erase"
    /\ set_my_chain(t, HashBucket_erase(my_chain(t), local[t].key))
    /\ set_my_lock(t, write_unlock(my_lock(t)))
    /\ goto(t, "ret")
    /\ UNCHANGED <<is_object_destruct, monitor_item, choose_ball_, data_count_, mtx_,
                   file_io_info_vec, child, local, ops, hist>>

\* ConcurrentHashMap::clear: one bucket's clear() under its write lock
Map_clear_cs(t) ==
    /\ pc[t] = "wl_held" /\ local[t].op = "clear"
    /\ set_my_chain(t, HashBucket_clear(my_chain(t)))
    /\ set_my_lock(t, write_unlock(my_lock(t)))
    /\ IF local[t].bucket + 1 < hash_bucket_size_
       THEN /\ local' = [local EXCEPT ![t].bucket = @ + 1]
            /\ goto(t, "wl_ticket")
       ELSE /\ goto(t, "ret")
            /\ UNCHANGED local
    /\ UNCHANGED <<is_object_destruct, monitor_item, choose_ball_, data_count_, mtx_,
                   file_io_info_vec, child, ops, hist>>

---------------------------------------------------------------------------
(* RWSpinLock called directly: the lock of bucket 0 of TestMap *)

LockCalls == {"write_lock", "read_lock", "try_write_lock", "try_read_lock"}

\* a thread calls write_lock, read_lock, try_write_lock or try_read_lock
call_lock(t, op) ==
    /\ pc[t] = "idle" /\ ops[t] > 0
    /\ goto(t, IF op = "write_lock" THEN "wl_ticket"
               ELSE IF op = "read_lock" THEN "rl_ticket" ELSE "try_head")
    /\ local' = [local EXCEPT ![t] = [LocalInit EXCEPT !.op = op, !.map = TestMap,
                                                       !.bucket = 0]]
    /\ ops' = [ops EXCEPT ![t] = @ - 1]
    /\ UNCHANGED <<shared, hist>>

\* try_write_lock, try_read_lock: head_.load()
RWSpinLock_try_load_head(t) ==
    /\ pc[t] = "try_head"
    /\ local' = [local EXCEPT ![t].head = my_lock(t).head_]
    /\ goto(t, "try_tail")
    /\ UNCHANGED <<shared, ops, hist>>

\* try_write_lock, try_read_lock: tail_.load()
RWSpinLock_try_load_tail(t) ==
    /\ pc[t] = "try_tail"
    /\ local' = [local EXCEPT ![t].ticket = my_lock(t).tail_]
    /\ goto(t, "try_cas")
    /\ UNCHANGED <<shared, ops, hist>>

\* try_write_lock: the test and the compare_exchange_strong; true is returned
\* with the lock held, false with nothing written
RWSpinLock_try_write_lock(t) ==
    /\ pc[t] = "try_cas" /\ local[t].op = "try_write_lock"
    /\ LET r == compare_exchange_tail(my_lock(t), local[t].ticket, exclusive_step)
           ok == try_write_test(local[t].head, local[t].ticket) /\ r.ok
       IN /\ locks' = IF ok THEN [locks EXCEPT ![local[t].map][local[t].bucket] = r.lock]
                      ELSE locks
          /\ local' = [local EXCEPT ![t].found = ok,
                                    ![t].ahead = IF ok THEN arrived_before(t) ELSE @]
          /\ goto(t, IF ok THEN "wl_held" ELSE "ret")
    /\ UNCHANGED <<is_object_destruct, monitor_item, maps, choose_ball_, data_count_,
                   mtx_, file_io_info_vec, child, ops, hist>>

\* try_read_lock: the test and the compare_exchange_strong
RWSpinLock_try_read_lock(t) ==
    /\ pc[t] = "try_cas" /\ local[t].op = "try_read_lock"
    /\ LET r == compare_exchange_tail(my_lock(t), local[t].ticket, shared_step)
           ok == try_read_test(local[t].head, local[t].ticket) /\ r.ok
       IN /\ locks' = IF ok THEN [locks EXCEPT ![local[t].map][local[t].bucket] = r.lock]
                      ELSE locks
          /\ local' = [local EXCEPT ![t].found = ok,
                                    ![t].ahead = IF ok THEN arrived_before(t) ELSE @]
          /\ goto(t, IF ok THEN "rl_held" ELSE "ret")
    /\ UNCHANGED <<is_object_destruct, monitor_item, maps, choose_ball_, data_count_,
                   mtx_, file_io_info_vec, child, ops, hist>>

\* the caller's write_unlock after write_lock or a successful try_write_lock
RWSpinLock_write_unlock(t) ==
    /\ pc[t] = "wl_held" /\ local[t].op \in {"write_lock", "try_write_lock"}
    /\ set_my_lock(t, write_unlock(my_lock(t)))
    /\ goto(t, "ret")
    /\ UNCHANGED <<is_object_destruct, monitor_item, maps, choose_ball_, data_count_,
                   mtx_, file_io_info_vec, child, local, ops, hist>>

\* the caller's read_unlock after read_lock or a successful try_read_lock
RWSpinLock_read_unlock(t) ==
    /\ pc[t] = "rl_held" /\ local[t].op \in {"read_lock", "try_read_lock"}
    /\ set_my_lock(t, read_unlock(my_lock(t)))
    /\ goto(t, "ret")
    /\ UNCHANGED <<is_object_destruct, monitor_item, maps, choose_ball_, data_count_,
                   mtx_, file_io_info_vec, child, local, ops, hist>>

---------------------------------------------------------------------------
(* ConstIterator over TestMap, as the loop of consume_and_parse uses it *)

\* a thread starts a traversal
call_iterate(t) ==
    /\ pc[t] = "idle" /\ ops[t] > 0
    /\ goto(t, "it_new")
    /\ local' = [local EXCEPT ![t] = [LocalInit EXCEPT !.op = "iterate", !.map = TestMap]]
    /\ ops' = [ops EXCEPT ![t] = @ - 1]
    /\ UNCHANGED <<shared, hist>>

\* auto iter = io_data.get_iterator()
ConcurrentHashMap_get_iterator(t) ==
    /\ pc[t] = "it_new"
    /\ local' = [local EXCEPT ![t].it = ConstIterator_new(maps[local[t].map])]
    /\ goto(t, "it_loop")
    /\ UNCHANGED <<shared, ops, hist>>

\* for (; iter != nullptr; iter++): the test, the visit of the node, and iter++
iterate_step(t) ==
    /\ pc[t] = "it_loop"
    /\ LET m == maps[local[t].map]
           it == local[t].it
       IN IF it.hash_node_ = 0
          THEN /\ goto(t, "ret")
               /\ UNCHANGED local
          ELSE /\ local' = [local EXCEPT
                              ![t].seen = Append(@, m[it.bucket_pos_][it.hash_node_]),
                              ![t].it = ConstIterator_inc(m, it)]
               /\ UNCHANGED pc
    /\ UNCHANGED <<shared, ops, hist>>

---------------------------------------------------------------------------
(* combine_key and divide_key, applied to a thread id and a path *)

\* a caller of combine_key, as add_hook_info is on an accepted event
call_combine_key(t, tid, path) ==
    /\ pc[t] = "idle" /\ ops[t] > 0
    /\ goto(t, "ck_combine")
    /\ local' = [local EXCEPT ![t] = [LocalInit EXCEPT !.op = "key", !.tid = tid,
                                         !.file_name = CStr(path)]]
    /\ ops' = [ops EXCEPT ![t] = @ - 1]
    /\ UNCHANGED <<shared, hist>>

\* auto key = combine_key(tid, file_name)
FileIoInfoHandler_combine_key(t) ==
    /\ pc[t] = "ck_combine"
    /\ local' = [local EXCEPT ![t].key = combine_key(local[t].tid, local[t].file_name.str)]
    /\ goto(t, "ck_divide")
    /\ UNCHANGED <<shared, ops, hist>>

\* divide_key(iter->get_key(), &tid, &file_name)
FileIoInfoHandler_divide_key(t) ==
    /\ pc[t] = "ck_divide"
    /\ local' = [local EXCEPT ![t].divided = divide_key(local[t].key)]
    /\ goto(t, "ret")
    /\ UNCHANGED <<shared, ops, hist>>

---------------------------------------------------------------------------
(* Specifications *)

\* the steps of RWSpinLock::write_lock and read_lock
LockSteps(t) ==
    \/ write_lock_ticket(t)
    \/ write_lock_spin(t)
    \/ read_lock_ticket(t)
    \/ read_lock_spin(t)

\* the steps of add_hook_info(OPEN_TYPE, fd, file_name)
OpenSteps(t) ==
    \/ add_hook_info_oc_entry(t)
    \/ HashBucket_insert_cs(t)

\* the steps of add_hook_info(type, fd, rw_size)
RwSteps(t) ==
    \/ add_hook_info_rw_entry(t)
    \/ add_hook_info_rw_size(t)
    \/ HashBucket_find_cs(t)
    \/ DoubleBallModule_write_lock(t)
    \/ HashBucket_insert_and_inc_cs(t)
    \/ DoubleBallModule_write_unlock(t)

\* the steps of consume_and_parse
SnapshotSteps(t) ==
    \/ consume_and_parse_entry(t)
    \/ read_and_switch_choose(t)
    \/ HashBucket_clear_cs(t)
    \/ read_and_switch_lock(t)
    \/ read_and_switch_flip(t)
    \/ consume_and_parse_iterate(t)

\* the steps of the event handlers and of the snapshot
Steps(t) ==
    \/ LockSteps(t)
    \/ OpenSteps(t)
    \/ HashBucket_erase_cs(t)
    \/ RwSteps(t)
    \/ SnapshotSteps(t)
    \/ ret(t)

\* the steps of a fork
ForkSteps(t) ==
    \/ DoubleBallModule_lock_prefork(t)
    \/ HashBucket_lock_prefork(t)
    \/ fork(t)
    \/ lock_postfork_parent(t)

\* the file names the interception layer passes: open passes its path argument,
\* close and fclose pass ""
OpenNames == {nullptr} \cup {CStr(p) : p \in Paths}
CloseNames == {CStr(<<>>)}

\* Spec: one host thread makes MaxOps calls, one after the other
Host == 1
Init == InitWith([t \in Threads |-> IF t = Host THEN MaxOps ELSE 0])
Next ==
    \/ \E fd \in Fds, file_name \in OpenNames :
          call_add_hook_info_oc(Host, OPEN_TYPE, fd, file_name, TRUE)
    \/ \E fd \in Fds, file_name \in CloseNames :
          call_add_hook_info_oc(Host, CLOSE_TYPE, fd, file_name, TRUE)
    \/ \E type \in FileOperateType, fd \in Fds, rw_size \in RwSizes :
          call_add_hook_info_rw(Host, type, fd, rw_size, TRUE)
    \/ call_consume_and_parse(Host, TRUE)
    \/ set_destruct_status(Host)
    \/ Steps(Host)
Spec == Init /\ [][Next]_vars

\* SpecRot: the benchmark's threads.  Each writer opens its descriptor and then
\* records MaxWrites events on it; the consumer takes MaxSnapshots snapshots;
\* all of them run concurrently.
Writers == {1, 2}
Consumer == 3
WriterFd(t) == t - 1
WriterPath(t) == IF t = 1 THEN <<"-", "y">> ELSE <<>>
WriterType(t) == IF t = 1 THEN READ_TYPE ELSE WRITE_TYPE
InitRot == InitWith([t \in Threads |-> IF t \in Writers THEN 1 + MaxWrites
                                       ELSE MaxSnapshots])
NextRot ==
    \/ \E t \in Writers :
          /\ ops[t] = 1 + MaxWrites
          /\ call_add_hook_info_oc(t, OPEN_TYPE, WriterFd(t), CStr(WriterPath(t)), FALSE)
    \/ \E t \in Writers :
          /\ ops[t] <= MaxWrites
          /\ call_add_hook_info_rw(t, WriterType(t), WriterFd(t), t, FALSE)
    \/ call_consume_and_parse(Consumer, FALSE)
    \/ \E t \in Threads :
          \/ LockSteps(t)
          \/ OpenSteps(t)
          \/ RwSteps(t)
          \/ SnapshotSteps(t)
          \/ ret(t)
SpecRot == InitRot /\ [][NextRot]_vars

\* SpecFork: a worker opens a descriptor and records MaxForkEvents events on it,
\* a consumer takes MaxForkSnapshots snapshots, and a third thread forks once;
\* the child runs io_hook_postfork_child on its copy of the locks.
Worker == 1
Collector == 2
Forker == 3
InitFork == InitWith([t \in Threads |-> IF t = Worker THEN 1 + MaxForkEvents
                                        ELSE IF t = Collector THEN MaxForkSnapshots
                                        ELSE 1])
NextFork ==
    \/ \E path \in Paths :
          /\ ops[Worker] = 1 + MaxForkEvents
          /\ call_add_hook_info_oc(Worker, OPEN_TYPE, 0, CStr(path), FALSE)
    \/ /\ ops[Worker] <= MaxForkEvents
       /\ call_add_hook_info_rw(Worker, WRITE_TYPE, 0, 1, FALSE)
    \/ call_consume_and_parse(Collector, FALSE)
    \/ call_fork(Forker)
    \/ \E t \in Threads :
          \/ LockSteps(t)
          \/ OpenSteps(t)
          \/ RwSteps(t)
          \/ SnapshotSteps(t)
          \/ ForkSteps(t)
          \/ ret(t)
    \/ lock_postfork_child
SpecFork == InitFork /\ [][NextFork]_vars

\* SpecForkFair: SpecFork under a fair scheduler: a thread inside a call that
\* can take a step takes one in the end (a caller need not make a call, and the
\* child need not run)
ForkThreadStep(t) ==
    \/ LockSteps(t)
    \/ OpenSteps(t)
    \/ RwSteps(t)
    \/ SnapshotSteps(t)
    \/ ForkSteps(t)
    \/ ret(t)
SpecForkFair == SpecFork /\ \A t \in Threads : WF_vars(ForkThreadStep(t))

\* SpecShed: one thread opens descriptor 0, records events on it and takes
\* snapshots, MaxShedOps calls in all: long enough to fill the pool, have an
\* event dropped, rotate, and record again
InitShed == InitWith([t \in Threads |-> IF t = Host THEN MaxShedOps ELSE 0])
NextShed ==
    \/ \E path \in Paths : call_add_hook_info_oc(Host, OPEN_TYPE, 0, CStr(path), TRUE)
    \/ \E type \in {READ_TYPE, WRITE_TYPE}, rw_size \in RwSizes :
          call_add_hook_info_rw(Host, type, 0, rw_size, TRUE)
    \/ call_consume_and_parse(Host, TRUE)
    \/ LockSteps(Host)
    \/ OpenSteps(Host)
    \/ RwSteps(Host)
    \/ SnapshotSteps(Host)
    \/ ret(Host)
SpecShed == InitShed /\ [][NextShed]_vars

\* SpecKind: one thread calls both overloads of add_hook_info with every kind
\* of FileOperateType, MaxKindOps calls in all
InitKind == InitWith([t \in Threads |-> IF t = Host THEN MaxKindOps ELSE 0])
NextKind ==
    \/ \E type \in FileOperateType, fd \in Fds, file_name \in OpenNames :
          call_add_hook_info_oc(Host, type, fd, file_name, TRUE)
    \/ \E type \in FileOperateType, fd \in Fds, rw_size \in RwSizes :
          call_add_hook_info_rw(Host, type, fd, rw_size, TRUE)
    \/ LockSteps(Host)
    \/ OpenSteps(Host)
    \/ HashBucket_erase_cs(Host)
    \/ RwSteps(Host)
    \/ ret(Host)
SpecKind == InitKind /\ [][NextKind]_vars

\* SpecAtfork: the process starts in the constructor of the library, which
\* registers the fork hooks; the host then makes MaxAtforkOps calls, among them
\* the atexit handler and the destructor of the engine
InitAtfork ==
    InitFrom([t \in Threads |-> IF t = Host THEN MaxAtforkOps ELSE 0], EmptyMaps,
             NewLocks, [t \in Threads |-> IF t = Host THEN "atfork" ELSE "idle"])
NextAtfork ==
    \/ init_hard_atfork(Host)
    \/ \E path \in Paths : call_add_hook_info_oc(Host, OPEN_TYPE, 0, CStr(path), TRUE)
    \/ \E file_name \in CloseNames :
          call_add_hook_info_oc(Host, CLOSE_TYPE, 0, file_name, TRUE)
    \/ \E type \in {READ_TYPE, WRITE_TYPE} :
          call_add_hook_info_rw(Host, type, 0, 1, TRUE)
    \/ call_consume_and_parse(Host, TRUE)
    \/ set_destruct_status(Host)
    \/ FileIoInfoHandler_destructor(Host)
    \/ Steps(Host)
SpecAtfork == InitAtfork /\ [][NextAtfork]_vars

\* SpecKey: one thread encodes a thread id and a path and decodes the key.  The
\* ids include the ends of 0 .. 2^31 - 1; the paths are all strings of up to
\* MaxKeyLen characters over the separator, a digit and a letter
KeyTids == {0, 7, 10, 4096, 2147483647}
KeyChars == {SEPARATOR_CHAR, "1", "y"}
KeyPaths == UNION { [1 .. n -> KeyChars] : n \in 0 .. MaxKeyLen }
InitKey == InitWith([t \in Threads |-> IF t = Host THEN 1 ELSE 0])
NextKey ==
    \/ \E tid \in KeyTids, path \in KeyPaths : call_combine_key(Host, tid, path)
    \/ FileIoInfoHandler_combine_key(Host)
    \/ FileIoInfoHandler_divide_key(Host)
    \/ ret(Host)
SpecKey == InitKey /\ [][NextKey]_vars

\* SpecWrap: three threads, each making MaxWrapOps calls of write_lock or
\* read_lock on one lock and unlocking it.  The lock is free and has been used
\* before: its exclusive half is one or two steps before its wrap, its shared
\* half is 0 or at its last value
WrapStarts == { [hi |-> h, lo |-> l] : h \in {0, shared_step - 1},
                                        l \in {shared_step - 2, shared_step - 1} }
InitWrap ==
    \E w \in WrapStarts :
        InitFrom([t \in Threads |-> MaxWrapOps], EmptyMaps,
                 [NewLocks EXCEPT ![TestMap][0] = [head_ |-> w, tail_ |-> w]], AllIdle)
WrapThreadStep(t) ==
    \/ LockSteps(t)
    \/ RWSpinLock_write_unlock(t)
    \/ RWSpinLock_read_unlock(t)
    \/ ret(t)
NextWrap ==
    \E t \in Threads :
        \/ \E op \in {"write_lock", "read_lock"} : call_lock(t, op)
        \/ WrapThreadStep(t)
SpecWrap == InitWrap /\ [][NextWrap]_vars
\* SpecWrap under a fair scheduler: a thread inside a call that can take a step
\* takes one in the end
SpecWrapFair == SpecWrap /\ \A t \in Threads : WF_vars(WrapThreadStep(t))

\* SpecTwo: a writer opens descriptor 0 and records MaxTwoEvents events on it
\* while two threads each take up to MaxTwoSnapshots snapshots
Gatherers == {2, 3}
InitTwo == InitWith([t \in Threads |-> IF t = Worker THEN 1 + MaxTwoEvents
                                       ELSE MaxTwoSnapshots])
NextTwo ==
    \/ /\ ops[Worker] = 1 + MaxTwoEvents
       /\ call_add_hook_info_oc(Worker, OPEN_TYPE, 0, CStr(<<"-", "y">>), FALSE)
    \/ /\ ops[Worker] <= MaxTwoEvents
       /\ call_add_hook_info_rw(Worker, WRITE_TYPE, 0, 1, FALSE)
    \/ \E t \in Gatherers : call_consume_and_parse(t, FALSE)
    \/ \E t \in Threads :
          \/ LockSteps(t)
          \/ OpenSteps(t)
          \/ RwSteps(t)
          \/ SnapshotSteps(t)
          \/ ret(t)
SpecTwo == InitTwo /\ [][NextTwo]_vars

\* SpecReg: one thread makes MaxRegOps record_open and record_close calls on
\* three descriptors, two of which hash to the same bucket
InitReg == InitWith([t \in Threads |-> IF t = Host THEN MaxRegOps ELSE 0])
NextReg ==
    \/ \E fd \in RegFds, path \in Paths :
          call_add_hook_info_oc(Host, OPEN_TYPE, fd, CStr(path), TRUE)
    \/ \E fd \in RegFds, file_name \in CloseNames :
          call_add_hook_info_oc(Host, CLOSE_TYPE, fd, file_name, TRUE)
    \/ write_lock_ticket(Host)
    \/ write_lock_spin(Host)
    \/ OpenSteps(Host)
    \/ HashBucket_erase_cs(Host)
    \/ ret(Host)
SpecReg == InitReg /\ [][NextReg]_vars

\* SpecLock: three threads, each making MaxLockOps calls that are a
\* record_open or a write event of descriptor 0, so that writers and readers
\* of the lock of one registry bucket contend
LockFd == 0
LockPath == <<"-", "y">>
InitLock == InitWith([t \in Threads |-> MaxLockOps])
NextLock ==
    \E t \in Threads :
        \/ call_add_hook_info_oc(t, OPEN_TYPE, LockFd, CStr(LockPath), FALSE)
        \/ call_add_hook_info_rw(t, WRITE_TYPE, LockFd, 1, FALSE)
        \/ LockSteps(t)
        \/ OpenSteps(t)
        \/ RwSteps(t)
        \/ ret(t)
SpecLock == InitLock /\ [][NextLock]_vars

\* SpecLockFair: SpecLock under a fair scheduler: a thread inside a call that
\* can take a step takes one in the end
LockThreadStep(t) ==
    \/ LockSteps(t)
    \/ OpenSteps(t)
    \/ RwSteps(t)
    \/ ret(t)
SpecLockFair == SpecLock /\ \A t \in Threads : WF_vars(LockThreadStep(t))

\* SpecTry: three threads, each making MaxTryOps calls of write_lock,
\* read_lock, try_write_lock or try_read_lock on one lock, and unlocking what
\* they have locked
InitTry == InitWith([t \in Threads |-> MaxTryOps])
NextTry ==
    \E t \in Threads :
        \/ \E op \in LockCalls : call_lock(t, op)
        \/ LockSteps(t)
        \/ RWSpinLock_try_load_head(t)
        \/ RWSpinLock_try_load_tail(t)
        \/ RWSpinLock_try_write_lock(t)
        \/ RWSpinLock_try_read_lock(t)
        \/ RWSpinLock_write_unlock(t)
        \/ RWSpinLock_read_unlock(t)
        \/ ret(t)
SpecTry == InitTry /\ [][NextTry]_vars

\* SpecInc: three threads, each making MaxIncOps calls of insert_and_inc on
\* the keys of one bucket
IncKeys == {k \in MapKeys : bucket_of_key(k) = 0}
InitInc == InitWith([t \in Threads |-> MaxIncOps])
NextInc ==
    \E t \in Threads :
        \/ \E key \in IncKeys, value \in MapValues :
              call_map(t, "insert_and_inc", key, value)
        \/ write_lock_ticket(t)
        \/ write_lock_spin(t)
        \/ Map_insert_and_inc_walk(t)
        \/ Map_insert_and_inc_link(t)
        \/ ret(t)
SpecInc == InitInc /\ [][NextInc]_vars

\* SpecIter: one thread traverses a map of MaxIterBuckets buckets that holds
\* some of MaxIterNodes nodes, in every distribution over the buckets
IterBuckets == 0 .. (MaxIterBuckets - 1)
IterNode(n) == [key |-> ToDigits(n), value |-> [read_b |-> n, write_b |-> 0]]
RECURSIVE IterChain(_, _, _)
\* the nodes from n on that f places in bucket b
IterChain(f, b, n) ==
    IF n > MaxIterNodes THEN <<>>
    ELSE (IF f[n] = b THEN <<IterNode(n)>> ELSE <<>>) \o IterChain(f, b, n + 1)
\* f gives every node a bucket, or MaxIterBuckets to leave it out
IterMaps ==
    { [b \in IterBuckets |-> IterChain(f, b, 1)] :
        f \in [1 .. MaxIterNodes -> 0 .. MaxIterBuckets] }
InitIter ==
    \E m \in IterMaps :
        InitState([t \in Threads |-> IF t = Host THEN 1 ELSE 0],
                  [EmptyMaps EXCEPT ![TestMap] = m])
NextIter ==
    \/ call_iterate(Host)
    \/ ConcurrentHashMap_get_iterator(Host)
    \/ iterate_step(Host)
    \/ ret(Host)
SpecIter == InitIter /\ [][NextIter]_vars

\* SpecMap: one thread makes MaxMapOps calls of find, insert, insert_and_inc,
\* erase and clear on one map
InitMap == InitWith([t \in Threads |-> IF t = Host THEN MaxMapOps ELSE 0])
NextMap ==
    \/ \E op \in MapOps, key \in MapKeys, value \in MapValues :
          /\ op \in {"find", "erase", "clear"} => value = CHOOSE v \in MapValues : TRUE
          /\ op = "clear" => key = CHOOSE k \in MapKeys : TRUE
          /\ call_map(Host, op, key, value)
    \/ LockSteps(Host)
    \/ Map_find_cs(Host)
    \/ Map_insert_cs(Host)
    \/ Map_insert_and_inc_walk(Host)
    \/ Map_insert_and_inc_link(Host)
    \/ Map_erase_cs(Host)
    \/ Map_clear_cs(Host)
    \/ ret(Host)
SpecMap == InitMap /\ [][NextMap]_vars

---------------------------------------------------------------------------
(* Properties of the sequential specification Spec.  A call of the host is   *)
(* compared at its return (pc = "ret") with the state at its entry (Entry).  *)

AtRet(op) == pc[Host] = "ret" /\ local[Host].op = op /\ tracked(Host)
Entry == pre[Host][1]
InCall == pc[Host] # "idle" /\ tracked(Host)

\* the <<key, value>> pairs a map holds
Entries(m) ==
    UNION { { <<m[b][i].key, m[b][i].value>> : i \in 1 .. Len(m[b]) } : b \in Buckets }
\* the keys a map holds
Keys(m) == { e[1] : e \in Entries(m) }
\* the sides of the accumulator
BallsOf(ms) == [b \in Balls |-> ms[b]]

\* a read or write event
IsRW(type) == type = READ_TYPE \/ type = WRITE_TYPE
\* the descriptor has no registered path
Unknown(e, fd) == fd \notin DOMAIN e \/ e[fd] = <<>>

\* the elements of a sequence
Range(q) == { q[i] : i \in 1 .. Len(q) }

NoBytes == [read_b |-> 0, write_b |-> 0]
RECURSIVE SumBytes(_, _, _)
\* the bytes accepted under the path, summed over the descriptors in S
SumBytes(f, path, S) ==
    IF S = {} THEN NoBytes
    ELSE LET fd == CHOOSE x \in S : TRUE
             k == <<fd, <<path>>>>
         IN FileRWInfo_add(IF k \in DOMAIN f THEN f[k] ELSE NoBytes,
                           SumBytes(f, path, S \ {fd}))

\* the records of the snapshot for the host thread and the path
RecordsOf(vec, path) ==
    { i \in 1 .. Len(vec) : vec[i].tid = get_tid(Host) /\ vec[i].file_name = path }

\* C4: the events a thread recorded on a path since the previous snapshot, none
\* of them dropped, come back in the next snapshot as exactly one record of
\* that (thread, path), whose read and write bytes are the sums of the events
C4_PerKeySums ==
    (AtRet("cp") /\ ~Entry.destruct) =>
        \A k \in DOMAIN Entry.since :
            /\ k[2] # <<>>
            /\ LET path == k[2][1]
                   sum == SumBytes(Entry.since, path, ValidFds)
                   recs == RecordsOf(file_io_info_vec, path)
               IN /\ Cardinality(recs) = 1
                  /\ \A i \in recs :
                        /\ file_io_info_vec[i].read_b = sum.read_b
                        /\ file_io_info_vec[i].write_b = sum.write_b

\* a snapshot returns a record that sums a read event and a write event
C4_Witness ==
    /\ AtRet("cp") /\ ~Entry.destruct
    /\ \E k \in DOMAIN Entry.since :
          /\ Entry.since[k].read_b > 0 /\ Entry.since[k].write_b > 0
          /\ RecordsOf(file_io_info_vec, k[2][1]) # {}

\* C5: once the destructing flag is set, a record_open, record_close or
\* record_rw call changes neither the registry, the accumulator nor a counter,
\* and a snapshot returns the empty sequence and does not rotate
C5_DestructingNoOp ==
    (InCall /\ Entry.destruct) =>
        /\ maps = Entry.maps
        /\ data_count_ = Entry.data_count_
        /\ monitor_item = Entry.monitor_item
        /\ choose_ball_ = Entry.choose_ball_
        /\ (AtRet("cp") => file_io_info_vec = <<>>)

\* a snapshot taken while destructing returns nothing although bytes are held
C5_Witness ==
    /\ AtRet("cp") /\ Entry.destruct
    /\ Entries(maps[active_ball(choose_ball_)]) # {}
    /\ file_io_info_vec = <<>>

\* the call is a read or write event that passed the checks before the lookup
\* of the registry: the engine is not destructing and the kind is Read or Write
LiveRW == AtRet("rw") /\ ~Entry.destruct /\ IsRW(local[Host].type)

\* C6 as the specification words it: a read or write event on a descriptor that
\* was closed and not opened again adds one to not_found_fd_file_name_num and
\* nothing to either side
C6_AsStated ==
    (/\ LiveRW
     /\ Entry.monitor_item.close_func_call_num > 0
     /\ Unknown(Entry.ereg, local[Host].fd)) =>
        /\ monitor_item.not_found_fd_file_name_num =
              Entry.monitor_item.not_found_fd_file_name_num + 1
        /\ BallsOf(maps) = BallsOf(Entry.maps)

\* C6: a read or write event on a descriptor without a registered path adds
\* nothing to either side; it adds one to not_found_fd_file_name_num, and to no
\* other counter, when the entry count it reads is not above the limit, and is
\* counted as an overflow drop instead when the count is above the limit
C6_NotFoundUnlessOverflow ==
    (LiveRW /\ Unknown(Entry.ereg, local[Host].fd)) =>
        /\ BallsOf(maps) = BallsOf(Entry.maps)
        /\ data_count_ = Entry.data_count_
        /\ monitor_item =
              [Entry.monitor_item EXCEPT
                 ![IF Entry.data_count_ > max_data_pool_size_
                   THEN "exceed_data_pool_size_drop_num"
                   ELSE "not_found_fd_file_name_num"] = @ + 1]

\* a read or write event after the close of its descriptor is counted not found
C6_Witness ==
    /\ LiveRW
    /\ local[Host].fd \in ValidFds
    /\ Entry.monitor_item.close_func_call_num > 0
    /\ Unknown(Entry.ereg, local[Host].fd)
    /\ monitor_item.not_found_fd_file_name_num =
          Entry.monitor_item.not_found_fd_file_name_num + 1

\* the nodes of the registry, as <<fd, path>> pairs
RegistryEntries == Entries(maps["fd_file_name_"])

\* C7: between calls, the registry holds an entry for a descriptor exactly when
\* the latest accepted open/close event of the descriptor is an open, and the
\* entry, which is the only one of the descriptor, holds the path of that open
C7_RegistryIffOpen ==
    pc[Host] = "idle" =>
        /\ \A fd \in ValidFds :
              /\ { e \in RegistryEntries : e[1] = fd } = { <<fd, p>> : p \in Range(ereg[fd]) }
              /\ HashBucket_find(maps["fd_file_name_"][bucket_of_fd(fd)], hash_fd(fd)).found
                    = (ereg[fd] # <<>>)
              /\ \A b \in Buckets :
                    Cardinality({ i \in 1 .. Len(maps["fd_file_name_"][b]) :
                                     maps["fd_file_name_"][b][i].key = fd }) <= 1
        /\ \A e \in RegistryEntries : e[1] \in ValidFds

\* a descriptor was opened, closed and opened again with the other path
C7_Witness ==
    /\ pc[Host] = "idle"
    /\ monitor_item.open_func_call_num >= 2
    /\ monitor_item.close_func_call_num >= 1
    /\ \E fd \in ValidFds : ereg[fd] = << <<"-", "y">> >> /\ <<fd, <<"-", "y">>>> \in RegistryEntries

\* the call was accepted: it reached write()
Accepted ==
    /\ LiveRW
    /\ monitor_item.read_func_call_num + monitor_item.write_func_call_num =
          Entry.monitor_item.read_func_call_num + Entry.monitor_item.write_func_call_num + 1

\* the value a map holds for the key, NoBytes when it holds none
ValueOf(m, key) ==
    IF key \in Keys(m) THEN (CHOOSE e \in Entries(m) : e[1] = key)[2] ELSE NoBytes

\* the records a snapshot owes to the bytes accepted since the previous one
Owed(f) ==
    { [tid |-> get_tid(Host), file_name |-> k[2][1],
       read_b |-> SumBytes(f, k[2][1], ValidFds).read_b,
       write_b |-> SumBytes(f, k[2][1], ValidFds).write_b] : k \in DOMAIN f }

\* C8: an accepted read or write event adds its bytes to the entry of
\* (thread, path registered for the descriptor by the latest open) on the
\* active side and leaves every other entry as it was; an open or a close
\* changes no entry of either side; and the next snapshot holds one record for
\* each path that received bytes, with the bytes received under that path
C8_AttributedAtEventTime ==
    /\ Accepted =>
          LET fd == local[Host].fd
              active == active_ball(choose_ball_)
          IN /\ ~Unknown(Entry.ereg, fd)
             /\ LET key == combine_key(get_tid(Host), Entry.ereg[fd][1])
                    old == Entries(Entry.maps[active])
                IN /\ Entries(maps[active]) =
                         { e \in old : e[1] # key } \cup
                         { <<key, FileRWInfo_add(ValueOf(Entry.maps[active], key),
                                      rw_value(local[Host].type, local[Host].rw_size))>> }
                   /\ maps[idle_ball(choose_ball_)] = Entry.maps[idle_ball(choose_ball_)]
    /\ AtRet("oc") => BallsOf(maps) = BallsOf(Entry.maps)
    /\ (AtRet("cp") /\ ~Entry.destruct) =>
          /\ \A k \in DOMAIN Entry.since : k[2] # <<>>
          /\ Range(file_io_info_vec) = Owed(Entry.since)
          /\ Len(file_io_info_vec) = Cardinality(Owed(Entry.since))

\* bytes were accepted on a descriptor under one path, the descriptor was
\* closed and opened again under another path, and bytes are accepted again
C8_Witness ==
    /\ Accepted
    /\ Entry.monitor_item.close_func_call_num > 0
    /\ \E k \in DOMAIN Entry.since :
          /\ k[1] = local[Host].fd
          /\ k[2] # Entry.ereg[local[Host].fd]
          /\ Cardinality(Entries(maps[active_ball(choose_ball_)])) = 2

\* C9 as the specification words it: a snapshot holds at most
\* max_data_pool_size_ records
C9_AtMostMaxRecords ==
    AtRet("cp") => Len(file_io_info_vec) <= max_data_pool_size_

\* C10: a read or write event that meets an entry count above the limit adds
\* one to exceed_data_pool_size_drop_num and changes nothing else; one that
\* meets an entry count not above the limit leaves that counter alone
C10_OverflowDrop ==
    LiveRW =>
        IF Entry.data_count_ > max_data_pool_size_
        THEN /\ monitor_item = [Entry.monitor_item EXCEPT
                                   !.exceed_data_pool_size_drop_num = @ + 1]
             /\ maps = Entry.maps
             /\ data_count_ = Entry.data_count_
        ELSE monitor_item.exceed_data_pool_size_drop_num =
                Entry.monitor_item.exceed_data_pool_size_drop_num

\* an event on a registered descriptor is dropped for overflow
C10_Witness ==
    /\ LiveRW
    /\ Entry.data_count_ > max_data_pool_size_
    /\ ~Unknown(Entry.ereg, local[Host].fd)
    /\ monitor_item.exceed_data_pool_size_drop_num = 1

---------------------------------------------------------------------------
(* Properties of the concurrent specification SpecRot *)

\* the bytes of the key in a history of bytes
BytesOf(f, k) == IF k \in DOMAIN f THEN f[k] ELSE NoBytes

\* C1: with writers recording events while the consumer takes snapshots, no
\* snapshot returns bytes that were not accepted or returns bytes twice, and
\* once a snapshot has been taken that began with every writer idle and saw no
\* event begin, the bytes returned by all snapshots, per (thread, path) and per
\* kind, are the bytes of the accepted events
C1_Conservation ==
    /\ \A k \in DOMAIN returned :
          /\ returned[k].read_b <= BytesOf(accepted, k).read_b
          /\ returned[k].write_b <= BytesOf(accepted, k).write_b
    /\ (settled /\ pc[Consumer] = "idle") => returned = accepted

\* both writers had events accepted, the consumer took all its snapshots, the
\* last of them with the writers at rest, and the bytes came in two snapshots
C1_Witness ==
    /\ settled /\ pc[Consumer] = "idle" /\ ops[Consumer] = 0
    /\ \A t \in Writers : <<get_tid(t), WriterPath(t)>> \in DOMAIN accepted
    /\ monitor_item.exceed_data_pool_size_drop_num > 0
    /\ Len(file_io_info_vec) = 1

\* the thread is inside write(): between mtx_.lock() and mtx_.unlock()
InWrite(t) ==
    /\ local[t].op = "rw"
    /\ pc[t] \in {"wl_ticket", "wl_spin", "wl_held", "write_unlock"}

\* C2: a thread inside write() owns the mutex and targets the side the selector
\* names; the selector flips only while no thread is inside write(); a side
\* changes only by an insert of a thread inside write(), which goes to the
\* active side, or by the consumer's clear of the other side; and the side a
\* read_and_switch returned stays as it is until the next snapshot call
C2_RotationStep ==
    /\ \A t \in Threads :
          InWrite(t) => mtx_ = t /\ local[t].ball = active_ball(choose_ball_)
                                 /\ local[t].map = local[t].ball
    /\ choose_ball_' # choose_ball_ => \A t \in Threads : ~InWrite(t)
    /\ \A b \in Balls :
          maps'[b] # maps[b] =>
             \/ /\ b = active_ball(choose_ball_)
                /\ \E t \in Threads : InWrite(t) /\ pc[t] = "wl_held" /\ pc'[t] # pc[t]
             \/ /\ b = idle_ball(choose_ball_)
                /\ pc[Consumer] = "wl_held" /\ pc'[Consumer] # pc[Consumer]
    /\ (retired # NoBall /\ retired' = retired) => maps'[retired] = maps[retired]

\* C2: every step keeps the rotation discipline above: writers insert only into
\* the active side, under the mutex the flip is made under, and the side a
\* read_and_switch returned is not modified before the next snapshot call
C2_Rotation == [][C2_RotationStep]_vars

\* a writer is about to insert into the active side while the consumer iterates
\* the side it was returned, which holds entries
C2_Witness ==
    /\ pc[Consumer] = "cp_iterate"
    /\ retired # NoBall /\ Entries(maps[retired]) # {}
    /\ \E t \in Writers : InWrite(t) /\ pc[t] = "wl_held"

---------------------------------------------------------------------------
(* Properties of the fork specification SpecFork *)

\* a lock is free: the next write_lock and the next read_lock pass at once
lock_is_free(lk) ==
    /\ write_lock_passes(lk, write_ticket(lk))
    /\ read_lock_passes(lk, read_ticket(lk))

\* C3 as the specification words it: after io_hook_postfork_child, the child's
\* mutex and the child's lock of every bucket of the registry and of both
\* sides are free
C3_ChildLocksFree ==
    child.state = "running" =>
        /\ child.mtx_ = NoThread
        /\ \A m \in MapIds, b \in Buckets : lock_is_free(child.locks[m][b])

---------------------------------------------------------------------------
(* Properties of SpecShed *)

\* C11: a snapshot of a live engine leaves data_count_ at zero, whatever it was,
\* and the first event on a registered descriptor after a rotation, no event
\* having been accepted since, is accepted
C11_SheddingRelents ==
    /\ (AtRet("cp") /\ ~Entry.destruct) => data_count_ = 0
    /\ (/\ LiveRW
        /\ ~Unknown(Entry.ereg, local[Host].fd)
        /\ retired # NoBall
        /\ Entry.since = <<>>) => Accepted

\* an event was dropped for overflow, a snapshot followed, and the next event
\* on the descriptor is accepted
C11_Witness ==
    /\ LiveRW /\ Accepted
    /\ retired # NoBall
    /\ Entry.since = <<>>
    /\ Entry.monitor_item.exceed_data_pool_size_drop_num > 0
    /\ Entry.data_count_ = 0

---------------------------------------------------------------------------
(* Properties of SpecTwo *)

\* C12 as the specification words it: with two snapshot callers, no side is
\* cleared or written while a caller iterates it, the side a rotation makes
\* active is empty at the flip, and the bytes returned are the bytes accepted
\* once a snapshot was taken with the writer at rest
C12_TwoConsumers ==
    /\ \A t \in Gatherers : pc[t] = "cp_iterate" => ~racing(t)
    /\ \A t \in Gatherers :
          pc[t] = "rs_flip" => Entries(maps[idle_ball(choose_ball_)]) = {}
    /\ \A k \in DOMAIN returned :
          /\ returned[k].read_b <= BytesOf(accepted, k).read_b
          /\ returned[k].write_b <= BytesOf(accepted, k).write_b
    /\ (settled /\ \A t \in Gatherers : pc[t] = "idle") => returned = accepted

---------------------------------------------------------------------------
(* Further properties of the sequential specification Spec *)

\* C13: a snapshot holds no record of a (thread, path) that had no event
\* accepted since the previous snapshot call, and no record holds more bytes
\* than were accepted for it since then
C13_NothingReturnedTwice ==
    (AtRet("cp") /\ ~Entry.destruct) =>
        \A i \in 1 .. Len(file_io_info_vec) :
            LET rec == file_io_info_vec[i]
                sum == SumBytes(Entry.since, rec.file_name, ValidFds)
            IN /\ rec.tid = get_tid(Host)
               /\ \E k \in DOMAIN Entry.since : k[2] = <<rec.file_name>>
               /\ rec.read_b <= sum.read_b
               /\ rec.write_b <= sum.write_b

\* two events were accepted, a snapshot was taken between them, and the later
\* snapshot returns the one byte of the later event only
C13_Witness ==
    /\ AtRet("cp") /\ ~Entry.destruct
    /\ monitor_item.read_func_call_num + monitor_item.write_func_call_num = 2
    /\ Len(file_io_info_vec) = 1
    /\ file_io_info_vec[1].read_b + file_io_info_vec[1].write_b = 1
    /\ \E k \in DOMAIN Entry.since :
          Entry.since[k].read_b + Entry.since[k].write_b = 1

\* the host is inside consume_and_parse, past the clear of the vector and
\* before the loop that fills it
PastClear ==
    /\ local[Host].op = "cp"
    /\ pc[Host] \notin {"idle", "cp_entry", "ret"}

RecordOfEntry(e) ==
    [tid |-> divide_key(e[1]).tid, file_name |-> divide_key(e[1]).file_name,
     read_b |-> e[2].read_b, write_b |-> e[2].write_b]

\* the number of nodes of a map
RECURSIVE NodesFrom(_, _)
NodesFrom(m, b) ==
    IF b >= hash_bucket_size_ THEN 0 ELSE Len(m[b]) + NodesFrom(m, b + 1)
NodeCount(m) == NodesFrom(m, 0)

\* C15: a snapshot is in descending order of read_b + write_b, and holds the
\* records of the nodes of the side read_and_switch returned, each once
C15_SortedDescending ==
    (AtRet("cp") /\ ~Entry.destruct) =>
        /\ \A i \in 1 .. Len(file_io_info_vec) - 1 :
              file_io_info_vec[i].read_b + file_io_info_vec[i].write_b
                 >= file_io_info_vec[i + 1].read_b + file_io_info_vec[i + 1].write_b
        /\ Range(file_io_info_vec) = { RecordOfEntry(e) : e \in Entries(maps[retired]) }
        /\ Len(file_io_info_vec) = NodeCount(maps[retired])
        /\ Cardinality(Range(file_io_info_vec)) = Len(file_io_info_vec)

\* a snapshot of two records with different totals
C15_Witness ==
    /\ AtRet("cp") /\ ~Entry.destruct
    /\ Len(file_io_info_vec) = 2
    /\ file_io_info_vec[1].read_b + file_io_info_vec[1].write_b
          > file_io_info_vec[2].read_b + file_io_info_vec[2].write_b

\* the call is a record_open of a live engine, at its return
LiveOpen == AtRet("oc") /\ ~Entry.destruct /\ local[Host].type = OPEN_TYPE

\* the call is counted as an argument error and changes nothing else
CountedAsOcError ==
    /\ monitor_item = [Entry.monitor_item EXCEPT !.api_oc_param_error_num = @ + 1]
    /\ maps = Entry.maps

\* C16 as the specification words it: a record_open with a negative descriptor
\* or an empty path adds one to api_oc_param_error_num, does not add to
\* open_func_call_num and leaves the registry as it was
C16_EmptyPathRejected ==
    (/\ LiveOpen
     /\ \/ local[Host].fd < 0
        \/ local[Host].file_name.str = <<>>) => CountedAsOcError

\* C16: a record_open with a negative descriptor or a null path adds one to
\* api_oc_param_error_num and changes nothing else; every other record_open,
\* the one with the empty string among them, adds one to open_func_call_num,
\* leaves api_oc_param_error_num alone and registers the path
C16_NullPathRejected ==
    LiveOpen =>
        IF local[Host].fd < 0 \/ local[Host].file_name.null
        THEN CountedAsOcError
        ELSE /\ monitor_item = [Entry.monitor_item EXCEPT !.open_func_call_num = @ + 1]
             /\ <<local[Host].fd, local[Host].file_name.str>> \in RegistryEntries

\* a record_open with a null path on a registered descriptor is counted as an
\* error and the descriptor keeps its path
C16_Witness ==
    /\ LiveOpen
    /\ local[Host].fd >= 0 /\ local[Host].file_name.null
    /\ ~Unknown(Entry.ereg, local[Host].fd)
    /\ monitor_item.api_oc_param_error_num = Entry.monitor_item.api_oc_param_error_num + 1
    /\ RegistryEntries = { <<local[Host].fd, Entry.ereg[local[Host].fd][1]>> }

---------------------------------------------------------------------------
(* Properties of the registry specification SpecReg *)

\* the registry at the entry of the host's call
EntryRegistry == Entries(Entry.maps["fd_file_name_"])

\* C17: a record_close of a descriptor >= 0 that the registry does not hold
\* adds one to close_func_call_num and changes nothing else: no other counter,
\* no node of the registry, no node of either side
C17_CloseUnknownFd ==
    (/\ AtRet("oc") /\ ~Entry.destruct
     /\ local[Host].type = CLOSE_TYPE
     /\ local[Host].fd >= 0 /\ ~local[Host].file_name.null
     /\ local[Host].fd \notin Keys(Entry.maps["fd_file_name_"])) =>
        /\ monitor_item = [Entry.monitor_item EXCEPT !.close_func_call_num = @ + 1]
        /\ maps = Entry.maps
        /\ data_count_ = Entry.data_count_

\* a record_close of descriptor 2 while the bucket it hashes to holds the node
\* of descriptor 0
C17_Witness ==
    /\ AtRet("oc") /\ local[Host].type = CLOSE_TYPE
    /\ local[Host].fd = 2
    /\ Keys(Entry.maps["fd_file_name_"]) = {0, 1}
    /\ monitor_item.close_func_call_num = Entry.monitor_item.close_func_call_num + 1

\* the host's call is a record_open of a descriptor the registry holds
Reopen ==
    /\ LiveOpen
    /\ local[Host].fd \in Keys(Entry.maps["fd_file_name_"])

\* C18: after a record_open of a descriptor the registry already holds, the
\* registry has exactly one node of the descriptor, with the new path, and the
\* nodes of the other descriptors as before; when the descriptor was already
\* registered with this path the registry is the one before the call
C18_ReopenLatestWins ==
    Reopen =>
        /\ RegistryEntries =
              {e \in EntryRegistry : e[1] # local[Host].fd}
                 \cup {<<local[Host].fd, local[Host].file_name.str>>}
        /\ NodeCount(maps["fd_file_name_"]) = Cardinality(RegistryEntries)
        /\ NodeCount(maps["fd_file_name_"]) = NodeCount(Entry.maps["fd_file_name_"])
        /\ <<local[Host].fd, local[Host].file_name.str>> \in EntryRegistry =>
              maps["fd_file_name_"] = Entry.maps["fd_file_name_"]

\* a record_open gives descriptor 2 another path while descriptor 0, of the
\* same bucket, is registered too
C18_Witness ==
    /\ Reopen
    /\ local[Host].fd = 2
    /\ 0 \in Keys(Entry.maps["fd_file_name_"])
    /\ <<2, local[Host].file_name.str>> \notin EntryRegistry
    /\ <<2, local[Host].file_name.str>> \in RegistryEntries

---------------------------------------------------------------------------
(* Properties of RWSpinLock, checked in SpecLock *)

\* thread t is between a completed write_lock and the write_unlock of the lock
\* of bucket b of map m
holds_write(t, m, b) ==
    pc[t] = "wl_held" /\ local[t].map = m /\ local[t].bucket = b
\* thread t is between a completed read_lock and the read_unlock of that lock
holds_read(t, m, b) ==
    pc[t] = "rl_held" /\ local[t].map = m /\ local[t].bucket = b

\* C19: of every lock, at most one thread holds the write lock, and while a
\* thread holds the write lock no thread holds the read lock
C19_MutualExclusion ==
    \A m \in MapIds, b \in Buckets : \A t \in Threads :
        holds_write(t, m, b) =>
            \A u \in Threads \ {t} : ~holds_write(u, m, b) /\ ~holds_read(u, m, b)

\* one thread holds the write lock of the registry bucket while a reader and a
\* writer of the same lock have their tickets and spin
C19_Witness ==
    \E t, u, v \in Threads :
        /\ holds_write(t, "fd_file_name_", bucket_of_fd(LockFd))
        /\ pc[u] = "rl_spin" /\ local[u].map = "fd_file_name_"
        /\ pc[v] = "wl_spin" /\ local[v].map = "fd_file_name_"

\* the threads that had a ticket of the lock when thread t took its ticket and
\* have not unlocked since
still_ahead(t) ==
    { u \in Threads \ {t} :
        /\ <<u, ops[u]>> \in local[t].ahead
        /\ on_lock(u, local[t].map, local[t].bucket) }
is_writer(u) == pc[u] \in {"wl_spin", "wl_held"}
is_reader(u) == pc[u] \in {"rl_spin", "rl_held"}

\* C20: a thread that has completed read_lock took its ticket before every
\* writer that has a ticket and has not unlocked; a thread that has completed
\* write_lock has no thread left that took a ticket before it, reader or writer,
\* and has not unlocked
C20_TicketOrder ==
    \A t \in Threads :
        /\ pc[t] = "rl_held" => \A u \in still_ahead(t) : ~is_writer(u)
        /\ pc[t] = "wl_held" => still_ahead(t) = {}

\* a writer holds the lock that two threads were on when it took its ticket
C20_Witness ==
    \E t \in Threads :
        /\ pc[t] = "wl_held"
        /\ Cardinality(local[t].ahead) = 2

---------------------------------------------------------------------------
(* Properties of the map called directly *)

\* the map holds the pairs of the finite map f, one node a key, each node in
\* the bucket its key hashes to
holds_exactly(m, f) ==
    /\ Entries(m) = { <<k, f[k]>> : k \in DOMAIN f }
    /\ NodeCount(m) = Cardinality(DOMAIN f)
    /\ \A b \in Buckets : \A i \in 1 .. Len(m[b]) : bucket_of_key(m[b][i].key) = b

\* C21: at the return of each of a sequence of find, insert, insert_and_inc,
\* erase and clear calls on one map, the map holds what the reference finite
\* map holds, with one node a key, and a find has returned whether the key is
\* present and, if so, its value
C21_ReferenceMap ==
    (pc[Host] = "ret" /\ local[Host].op \in MapOps) =>
        /\ holds_exactly(maps[TestMap], ref)
        /\ local[Host].op = "find" =>
              /\ local[Host].found = (local[Host].key \in DOMAIN ref)
              /\ local[Host].found => local[Host].value = ref[local[Host].key]

\* an insert_and_inc has added to a key whose node stands behind the node of
\* another key in the chain of their bucket
C21_Witness ==
    /\ pc[Host] = "ret" /\ local[Host].op = "insert_and_inc"
    /\ local[Host].node = 2
    /\ ref[local[Host].key].read_b + ref[local[Host].key].write_b >= 3
    /\ ops[Host] = 0

---------------------------------------------------------------------------
(* Properties of the rotation with one consumer, checked in SpecRot *)

\* C22: in every step that flips the selector, the side that becomes active has
\* no node, before the step and after it
C22_FlipOntoEmptySide ==
    [][choose_ball_' # choose_ball_ =>
          /\ NodeCount(maps[idle_ball(choose_ball_)]) = 0
          /\ NodeCount(maps'[active_ball(choose_ball_')]) = 0]_vars

\* the consumer is about to flip for the second time: the side that becomes
\* active is the one its first snapshot returned with records, and the side
\* that is active holds nodes
C22_Witness ==
    /\ pc[Consumer] = "rs_flip"
    /\ ops[Consumer] = MaxSnapshots - 2
    /\ returned # <<>>
    /\ NodeCount(maps[active_ball(choose_ball_)]) > 0
    /\ NodeCount(maps[idle_ball(choose_ball_)]) = 0

\* the consumer is in the clear that read_and_switch starts with
InPreClear(t) ==
    /\ local[t].op = "cp"
    /\ pc[t] \in {"wl_ticket", "wl_spin", "wl_held"}
\* the thread has a ticket of, or is about to take a ticket of, a bucket lock of
\* map m
AtLockOf(t, m) ==
    /\ pc[t] \in {"wl_ticket", "wl_spin", "wl_held", "rl_ticket", "rl_spin", "rl_held"}
    /\ local[t].map = m

\* C23: while the consumer clears, it clears the side the selector does not
\* name, it does not own the mutex, and no other thread is at a bucket lock of
\* that side; when it goes on to take the mutex and flip, that side has no node;
\* and the side it then returns is not the side it cleared
C23_RotationOrder ==
    /\ InPreClear(Consumer) =>
          /\ local[Consumer].map = idle_ball(choose_ball_)
          /\ mtx_ # Consumer
          /\ \A t \in Threads \ {Consumer} : ~AtLockOf(t, local[Consumer].map)
    /\ pc[Consumer] \in {"rs_mtx", "rs_flip"} =>
          /\ local[Consumer].map = idle_ball(choose_ball_)
          /\ NodeCount(maps[local[Consumer].map]) = 0
    /\ (pc[Consumer] \in {"cp_iterate", "ret"} /\ local[Consumer].ball # NoBall) =>
          /\ local[Consumer].ball # local[Consumer].map
          /\ local[Consumer].ball = idle_ball(choose_ball_)

\* the consumer is about to clear a bucket that holds a node while a writer is
\* about to insert into a bucket of the other side
C23_Witness ==
    /\ InPreClear(Consumer) /\ pc[Consumer] = "wl_held"
    /\ my_chain(Consumer) # <<>>
    /\ \E t \in Writers : pc[t] = "wl_held" /\ local[t].map = active_ball(choose_ball_)

---------------------------------------------------------------------------
(* Properties of prefork, checked in SpecFork *)

\* some thread other than t is between a completed lock call and the unlock of
\* a bucket lock
InBucketSection(t) == \E u \in Threads \ {t} : pc[u] \in {"wl_held", "rl_held"}

\* C24 as the specification words it: when prefork has returned and fork() is
\* about to run, the forking thread owns the mutex, the lock of every bucket of
\* the registry and of both sides is taken, and no other thread is inside a
\* bucket's critical section
C24_PreforkHoldsAll ==
    pc[Forker] = "fork" =>
        /\ mtx_ = Forker
        /\ \A m \in MapIds, b \in Buckets : ~lock_is_free(locks[m][b])
        /\ ~InBucketSection(Forker)

\* the tickets of a lock that are taken and not yet given back by an unlock
outstanding(lk) ==
    ((lk.tail_.lo - lk.head_.lo) + (lk.tail_.hi - lk.head_.hi)) % shared_step
\* the forking thread has taken the write lock of bucket b of the registry in
\* prefork and has not run postfork_parent
prefork_holds(b) ==
    /\ local[Forker].op = "fork"
    /\ \/ pc[Forker] \in {"fork", "postfork_parent"}
       \/ /\ pc[Forker] \in {"wl_ticket", "wl_spin", "wl_held"}
          /\ local[Forker].bucket > b
\* the threads that have a ticket of the lock of bucket b of map m
ticket_holders(m, b) ==
    Cardinality({t \in Threads : on_lock(t, m, b)})
       + (IF m = "fd_file_name_" /\ prefork_holds(b) THEN 1 ELSE 0)

\* C25: a thread has a ticket of a bucket lock only between its lock call and
\* its unlock, so a thread that waits for the mutex or for a bucket lock holds
\* no bucket lock, except the forking thread, which holds the registry buckets
\* below the one it waits for; the forking thread owns the mutex while it takes
\* them; postfork_parent releases the mutex and every registry bucket; and
\* under fair scheduling a prefork that has begun leads to the return of
\* postfork_parent
C25_PreforkCompletes ==
    /\ [](\A m \in MapIds, b \in Buckets : outstanding(locks[m][b]) = ticket_holders(m, b))
    /\ []((local[Forker].op = "fork" /\ pc[Forker] # "pf_mtx" /\ pc[Forker] # "ret")
             => mtx_ = Forker)
    /\ [][(pc[Forker] = "postfork_parent" /\ pc'[Forker] = "ret") =>
             /\ mtx_' = NoThread
             /\ \A b \in Buckets :
                   locks'["fd_file_name_"][b].head_ =
                      word_add(locks["fd_file_name_"][b].head_, exclusive_step)
             /\ \A b \in Buckets : ~prefork_holds(b)']_vars
    /\ (pc[Forker] = "pf_mtx") ~> (pc[Forker] = "ret")

\* the forking thread owns the mutex and waits for a registry bucket whose
\* write lock the worker holds, while the worker's next call will wait for the
\* mutex and the collector is inside its clear
C25_Witness ==
    /\ pc[Forker] = "wl_spin" /\ mtx_ = Forker
    /\ pc[Worker] = "wl_held" /\ local[Worker].map = "fd_file_name_"
    /\ local[Worker].bucket = local[Forker].bucket
    /\ InPreClear(Collector)

---------------------------------------------------------------------------
(* Progress of RWSpinLock, checked in SpecLockFair *)

\* the threads that took a ticket of the lock thread t is on after t did and
\* have not unlocked
arrived_after(t) ==
    { u \in Threads \ {t} :
        /\ on_lock(u, local[t].map, local[t].bucket)
        /\ <<t, ops[t]>> \in local[u].ahead }

\* C26: a thread spinning in write_lock whose predecessors on the lock have all
\* unlocked finds head_ equal to its ticket, whoever has taken a ticket after
\* it; and under fair scheduling every thread spinning in write_lock comes to
\* hold the lock
C26_WriterProgress ==
    /\ [](\A t \in Threads :
             (pc[t] = "wl_spin" /\ still_ahead(t) = {}) =>
                 write_lock_passes(my_lock(t), local[t].ticket))
    /\ \A t \in Threads : (pc[t] = "wl_spin") ~> (pc[t] = "wl_held")

\* a writer that found a thread on the lock has waited and now holds the lock,
\* while a reader that took its ticket after the writer spins
C26_Witness ==
    \E t, u \in Threads :
        /\ pc[t] = "wl_held" /\ local[t].map = "fd_file_name_"
        /\ local[t].ahead # {}
        /\ u \in arrived_after(t) /\ pc[u] = "rl_spin"

---------------------------------------------------------------------------
(* Shared reads of RWSpinLock, checked in SpecLock *)

\* C27: a thread spinning in read_lock passes unless a writer that took its
\* ticket before it has not unlocked: readers alone never keep it waiting
C27_SharedReads ==
    \A t \in Threads :
        (pc[t] = "rl_spin" /\ \A u \in still_ahead(t) : ~is_writer(u)) =>
            read_lock_passes(my_lock(t), local[t].ticket)

\* the three threads hold the read lock of one bucket at the same time, each
\* having found the ones before it on the lock
C27_Witness ==
    /\ \A t \in Threads : holds_read(t, "fd_file_name_", bucket_of_fd(LockFd))
    /\ \E t \in Threads : Cardinality(still_ahead(t)) = 2

---------------------------------------------------------------------------
(* try_write_lock and try_read_lock, checked in SpecTry *)

\* thread t is at the compare-exchange of a try call, and the step makes it
\* hold the lock / return false
try_succeeds(t) ==
    pc[t] = "try_cas" /\ pc'[t] \in {"wl_held", "rl_held"}
try_fails(t) ==
    pc[t] = "try_cas" /\ pc'[t] = "ret"

\* C28: no state has a holder of the write lock together with another holder;
\* a thread inside a try call can always take its next step; a try_write_lock
\* that succeeds finds no other thread with a ticket of the lock, a
\* try_read_lock that succeeds finds no writer with one; and a try that fails
\* leaves head_ and tail_ as they are
C28_TryLocks ==
    /\ []C19_MutualExclusion
    /\ [](\A t \in Threads :
             /\ pc[t] = "try_head" => ENABLED RWSpinLock_try_load_head(t)
             /\ pc[t] = "try_tail" => ENABLED RWSpinLock_try_load_tail(t)
             /\ pc[t] = "try_cas" => ENABLED (RWSpinLock_try_write_lock(t)
                                                \/ RWSpinLock_try_read_lock(t)))
    /\ [][\A t \in Threads :
             /\ (try_succeeds(t) /\ local[t].op = "try_write_lock") =>
                   /\ pc'[t] = "wl_held"
                   /\ \A u \in Threads \ {t} : ~on_lock(u, local[t].map, local[t].bucket)
             /\ (try_succeeds(t) /\ local[t].op = "try_read_lock") =>
                   /\ pc'[t] = "rl_held"
                   /\ \A u \in Threads \ {t} :
                         ~(on_lock(u, local[t].map, local[t].bucket) /\ is_writer(u))
             /\ try_fails(t) => locks' = locks /\ ~local'[t].found]_vars

\* a try_read_lock has succeeded beside a reader that holds the lock, and a
\* try_write_lock has failed
C28_Witness ==
    \E t, u, v \in Threads :
        /\ pc[t] = "rl_held" /\ local[t].op = "try_read_lock" /\ local[t].ahead # {}
        /\ pc[u] = "rl_held" /\ local[u].op = "read_lock"
        /\ pc[v] = "ret" /\ local[v].op = "try_write_lock" /\ ~local[v].found

---------------------------------------------------------------------------
(* Concurrent insert_and_inc, checked in SpecInc *)

\* C29: whenever every insert_and_inc call made so far has returned, the map
\* has one node for each key added to, holding the sum of the values added for
\* the key
C29_NoLostUpdate ==
    (\A t \in Threads : pc[t] \in {"idle", "ret"}) => holds_exactly(maps[TestMap], ref)

\* each thread has made one call and all calls have returned; the last one found both other threads on the lock
\* of the bucket when it took its ticket; the bucket holds the nodes of two
\* keys, so that one of them holds the sum of the values of two calls
C29_Witness ==
    /\ \A t \in Threads : pc[t] \in {"idle", "ret"}
    /\ \E t \in Threads : pc[t] = "ret" /\ Cardinality(local[t].ahead) = 2
    /\ Cardinality(DOMAIN ref) = 2
    /\ Len(maps[TestMap][0]) = 2
    /\ \A t \in Threads : ops[t] = MaxIncOps - 1

---------------------------------------------------------------------------
(* The iterator, checked in SpecIter *)

\* the nodes of a map, whatever its number of buckets
NodesOf(m) == UNION { { m[b][i] : i \in 1 .. Len(m[b]) } : b \in DOMAIN m }

\* C30: when the loop over a map that nobody changes ends, the iterator is
\* null and the nodes visited are the nodes of the map, each visited once
C30_VisitsEachOnce ==
    (pc[Host] = "ret" /\ local[Host].op = "iterate") =>
        /\ local[Host].it.hash_node_ = 0
        /\ Range(local[Host].seen) = NodesOf(maps[TestMap])
        /\ \A i, j \in 1 .. Len(local[Host].seen) :
              local[Host].seen[i] = local[Host].seen[j] => i = j

\* the loop has ended on a map whose first bucket holds one node, whose middle
\* bucket is empty and whose last bucket holds two
C30_Witness ==
    /\ pc[Host] = "ret" /\ local[Host].op = "iterate"
    /\ Len(maps[TestMap][0]) = 1
    /\ \A b \in 1 .. (MaxIterBuckets - 2) : Len(maps[TestMap][b]) = 0
    /\ Len(maps[TestMap][MaxIterBuckets - 1]) = 2
    /\ Len(local[Host].seen) = 3

\* the loop has ended on the empty map without a visit
C30_WitnessEmpty ==
    /\ pc[Host] = "ret" /\ local[Host].op = "iterate"
    /\ NodesOf(maps[TestMap]) = {}
    /\ local[Host].seen = <<>>

---------------------------------------------------------------------------
(* The kinds of the events and the counters, checked in SpecKind *)

\* the host is at the return of a call that began while not destructing
LiveCall(op) == AtRet(op) /\ ~Entry.destruct

\* C31: a read/write event whose kind is neither Read nor Write adds one to
\* api_rw_param_error_num and changes no other counter, no map and no entry
\* count, whatever the entry count and the registry at its entry; an
\* open/close event whose kind is neither Open nor Close adds one to
\* api_oc_param_error_num, to no other counter, and changes no map
C31_BadKindDropped ==
    /\ (LiveCall("rw") /\ ~IsRW(local[Host].type)) =>
          /\ monitor_item =
                [Entry.monitor_item EXCEPT !.api_rw_param_error_num = @ + 1]
          /\ maps = Entry.maps
          /\ data_count_ = Entry.data_count_
          /\ choose_ball_ = Entry.choose_ball_
    /\ (LiveCall("oc") /\ local[Host].type \notin {OPEN_TYPE, CLOSE_TYPE}) =>
          /\ monitor_item =
                [Entry.monitor_item EXCEPT !.api_oc_param_error_num = @ + 1]
          /\ maps = Entry.maps
          /\ data_count_ = Entry.data_count_

\* an event of kind Open on a registered descriptor arrives at record_rw while
\* the entry count is above the limit, and is counted as a parameter error
C31_Witness ==
    /\ LiveCall("rw") /\ local[Host].type = OPEN_TYPE
    /\ ~Unknown(Entry.ereg, local[Host].fd)
    /\ Entry.data_count_ > max_data_pool_size_
    /\ monitor_item.api_rw_param_error_num =
          Entry.monitor_item.api_rw_param_error_num + 1

\* an event of kind Read with a valid descriptor and path arrives at
\* record_open/record_close while the registry holds an entry
C31_WitnessOc ==
    /\ LiveCall("oc") /\ local[Host].type = READ_TYPE
    /\ local[Host].fd >= 0 /\ ~local[Host].file_name.null
    /\ Entries(Entry.maps["fd_file_name_"]) # {}
    /\ monitor_item.api_oc_param_error_num =
          Entry.monitor_item.api_oc_param_error_num + 1

\* the counters a record_rw call can add to, and those of record_open/close
RwCounters ==
    {"read_func_call_num", "write_func_call_num", "api_rw_param_error_num",
     "exceed_data_pool_size_drop_num", "not_found_fd_file_name_num"}
OcCounters == {"open_func_call_num", "close_func_call_num", "api_oc_param_error_num"}
CallCounters == {"read_func_call_num", "write_func_call_num"}

\* the counter that is one higher at the return of the call than at its entry,
\* all others being equal; "none" if there is no such counter
Incremented(S) ==
    IF \E c \in S : monitor_item = [Entry.monitor_item EXCEPT ![c] = @ + 1]
    THEN CHOOSE c \in S : monitor_item = [Entry.monitor_item EXCEPT ![c] = @ + 1]
    ELSE "none"

\* C32: a record_rw call made while not destructing adds one to exactly one of
\* its five counters and changes no other; it adds to the accumulator (the
\* sides change and the entry count goes up by one) exactly when that counter
\* is a call counter; a record_open/record_close call adds one to exactly one
\* of its three counters
C32_OneCounterPerCall ==
    /\ LiveCall("rw") =>
          /\ Incremented(RwCounters) # "none"
          /\ IF Incremented(RwCounters) \in CallCounters
             THEN /\ BallsOf(maps) # BallsOf(Entry.maps)
                  /\ data_count_ = Entry.data_count_ + 1
             ELSE /\ BallsOf(maps) = BallsOf(Entry.maps)
                  /\ data_count_ = Entry.data_count_
    /\ LiveCall("oc") => Incremented(OcCounters) # "none"

\* after an open and accepted events that filled the pool, a record_rw call
\* is counted as an overflow drop and as nothing else
C32_Witness ==
    /\ LiveCall("rw")
    /\ Incremented(RwCounters) = "exceed_data_pool_size_drop_num"
    /\ monitor_item.read_func_call_num > 0
    /\ monitor_item.open_func_call_num > 0

---------------------------------------------------------------------------
(* The frame of the snapshot, checked in Spec *)

\* what record_rw's lookup of the descriptor finds in the registry
Resolve(fd) == HashBucket_find(maps["fd_file_name_"][bucket_of_fd(fd)], hash_fd(fd))

\* C33: from its entry to its return a snapshot changes neither the registry
\* nor any of the eight counters, and at its return the lookup of every
\* descriptor that was open at its entry still finds the path it was opened with
C33_SnapshotFrame ==
    (InCall /\ local[Host].op = "cp") =>
        /\ maps["fd_file_name_"] = Entry.maps["fd_file_name_"]
        /\ monitor_item = Entry.monitor_item
        /\ AtRet("cp") =>
              \A fd \in ValidFds :
                  ~Unknown(Entry.ereg, fd) =>
                      /\ Resolve(fd).found
                      /\ Resolve(fd).value = Entry.ereg[fd][1]

\* a snapshot that rotated and returned a record ends with the descriptor of
\* the record still registered and the counters of its events still standing
C33_Witness ==
    /\ AtRet("cp") /\ ~Entry.destruct
    /\ file_io_info_vec # <<>>
    /\ choose_ball_ # Entry.choose_ball_
    /\ \E fd \in ValidFds : ~Unknown(Entry.ereg, fd) /\ Resolve(fd).found
    /\ monitor_item.open_func_call_num > 0
    /\ monitor_item.read_func_call_num + monitor_item.write_func_call_num > 0

---------------------------------------------------------------------------
(* The entry count of the accumulator, checked in SpecRot *)

\* the number of entries of the side the writers write
ActiveEntries == Cardinality(Entries(maps[active_ball(choose_ball_)]))

\* C35: whenever the rotation mutex is free, data_count_ is the number of
\* events write() has added since the selector was last flipped, and the side
\* being written holds at most that many entries
C35_CountsEvents ==
    mtx_free(mtx_) =>
        /\ data_count_ = written
        /\ ActiveEntries <= data_count_

\* two events on one key have made the count exceed the limit: the side being
\* written holds one entry, and an event has been dropped for overflow
C35_Witness ==
    /\ mtx_free(mtx_)
    /\ ActiveEntries = 1
    /\ data_count_ = 2 /\ size_exceeds(data_count_)
    /\ monitor_item.exceed_data_pool_size_drop_num > 0

---------------------------------------------------------------------------
(* The destructing state, checked in SpecAtfork *)

\* a call of the host leaves the registry, the accumulator, the counters and
\* the selector as they were at its entry
NoEffect ==
    /\ maps = Entry.maps
    /\ data_count_ = Entry.data_count_
    /\ monitor_item = Entry.monitor_item
    /\ choose_ball_ = Entry.choose_ball_

\* the flag is never set back to false
FlagAbsorbing == [][is_object_destruct => is_object_destruct']_vars

\* once the flag is set, a call has no effect and a snapshot returns nothing
FlagDisables ==
    (InCall /\ Entry.destruct) => (NoEffect /\ (AtRet("cp") => file_io_info_vec = <<>>))

\* C34: the flag is never set back to false; it is set once the registration of
\* the fork hooks has failed, so that from then on every record_open,
\* record_close, record_rw and snapshot call is without effect
C34_DestructAbsorbing ==
    /\ FlagAbsorbing
    /\ [](atfork_failed => is_object_destruct)
    /\ []((atfork_failed /\ InCall) => NoEffect)
    /\ []FlagDisables

---------------------------------------------------------------------------
(* The key encoding, checked in SpecKey *)

\* the host has encoded and decoded a key
Decoded == pc[Host] = "ret" /\ local[Host].op = "key"

\* C36: divide_key gives back the thread id and the path combine_key was
\* called with, also for a path that holds the separator, and no other thread
\* id and path have the same key
C36_KeyRoundTrip ==
    Decoded =>
        /\ local[Host].divided =
              [rc |-> 0, tid |-> local[Host].tid, file_name |-> local[Host].file_name.str]
        /\ \A tid \in KeyTids, path \in KeyPaths :
              combine_key(tid, path) = local[Host].key =>
                  tid = local[Host].tid /\ path = local[Host].file_name.str

\* the largest thread id with a path that begins with the separator and holds
\* it a second time
C36_Witness ==
    /\ Decoded
    /\ local[Host].tid = 2147483647
    /\ Len(local[Host].file_name.str) = MaxKeyLen
    /\ local[Host].file_name.str[1] = SEPARATOR_CHAR
    /\ local[Host].file_name.str[MaxKeyLen] = SEPARATOR_CHAR
    /\ local[Host].divided.file_name = local[Host].file_name.str

---------------------------------------------------------------------------
(* The wrap of the lock words, checked in SpecWrapFair *)

\* the lock the threads of SpecWrap use
WrapLock == locks[TestMap][0]
\* no thread has a ticket of it that it has not unlocked
WrapLockFree == \A t \in Threads : ~on_lock(t, TestMap, 0)

\* w + 1 modulo 2^32, written out by halves
Successor(w) ==
    IF w.lo = shared_step - 1
    THEN [hi |-> IF w.hi = shared_step - 1 THEN 0 ELSE w.hi + 1, lo |-> 0]
    ELSE [hi |-> w.hi, lo |-> w.lo + 1]

\* C37: while the words of the lock wrap, a writer excludes every other
\* thread; head_ equals tail_ exactly when no thread holds or awaits the lock;
\* a write_lock moves tail_, and a write_unlock head_, to its successor modulo
\* 2^32, carry included; and every thread that awaits the lock comes to hold it
C37_WrapSafe ==
    /\ [](\A t \in Threads :
             holds_write(t, TestMap, 0) =>
                 \A u \in Threads \ {t} :
                     ~holds_write(u, TestMap, 0) /\ ~holds_read(u, TestMap, 0))
    /\ [](WrapLockFree <=> WrapLock.head_ = WrapLock.tail_)
    /\ [][\A t \in Threads :
             /\ (pc[t] = "wl_ticket" /\ pc'[t] = "wl_spin") =>
                   WrapLock'.tail_ = Successor(WrapLock.tail_)
             /\ (pc[t] = "wl_held" /\ pc'[t] = "ret") =>
                   WrapLock'.head_ = Successor(WrapLock.head_)]_vars
    /\ \A t \in Threads :
          /\ (pc[t] = "wl_spin") ~> (pc[t] = "wl_held")
          /\ (pc[t] = "rl_spin") ~> (pc[t] = "rl_held")

\* a writer holds the lock with the last ticket before the wrap of the
\* exclusive half, the next writer spins with a ticket whose exclusive half is
\* 0 and whose shared half took the carry, and a reader spins too
C37_Witness ==
    \E t, u, v \in Threads :
        /\ holds_write(t, TestMap, 0) /\ local[t].ticket.lo = shared_step - 1
        /\ pc[u] = "wl_spin" /\ local[u].ticket.lo = 0
        /\ local[u].ticket.hi = (local[t].ticket.hi + 1) % shared_step
        /\ pc[v] = "rl_spin"

\* all calls have returned after the wrap: the lock is free and its words are
\* equal again, with small values in both halves
C37_WitnessFull ==
    /\ WrapLockFree /\ \A t \in Threads : ops[t] = 0 /\ pc[t] = "idle"
    /\ WrapLock.head_ = WrapLock.tail_
    /\ WrapLock.head_.hi <= 2 /\ WrapLock.head_.lo <= 2

====
